---- MODULE Spec2Model ----
(***************************************************************************)
(* State-machine model of the Cricbuzz LiveStats ingestion pipeline        *)
(* (data_fetcher.py: CricbuzzDataFetcher) and of the write path of the     *)
(* query facade (utils/db_connection.py: execute_update).                  *)
(*                                                                         *)
(* The database file is modelled table by table as sets of rows.  Every    *)
(* handler is one atomic action: the program is single-threaded and each   *)
(* handler opens a connection, runs its statements and commits or rolls    *)
(* back before it returns.                                                 *)
(*                                                                         *)
(* REAL columns are kept as integers in hundredths (40.0 is 4000).         *)
(***************************************************************************)
EXTENDS Integers, Sequences, FiniteSets, Bags, TLC

VARIABLES
    teams,            \* table teams
    venues,           \* table venues
    series,           \* table series
    matches,          \* table matches
    players,          \* table players
    pmp,              \* table player_match_performance
    team_statistics,  \* table team_statistics, a bag of rows without stat_id
    schema,           \* which initializer created the tables of the file first,
                      \* "none" on a new file, "unusable" on a file that takes
                      \* no statement
    pc,               \* next step of fetch_and_store_all_data
    runs,             \* pipeline runs started so far
    webOps,           \* web application set-ups and facade statements so far
    lastOp,           \* the handler that ran last
    lastArg,          \* its input (the payload or statement it was given)
    lastResult,       \* what it returned or how it ended
    lastIngest,       \* feed and payload of the last match ingestion that got data
    idCalls,          \* every generate_player_id call made: <<key, name, team, id>>
    api,              \* the make_api_request call in progress, if any
    stats,            \* self.stats: api_calls, successful_calls, failed_calls
    crud              \* per browser session: the add-player form it submitted and
                      \* how far create_new_player_record has got

tables == <<teams, venues, series, matches, players, pmp, team_statistics>>

vars == <<teams, venues, series, matches, players, pmp, team_statistics, schema,
          pc, runs, webOps, lastOp, lastArg, lastResult, lastIngest, idCalls,
          api, stats, crud>>

----------------------------------------------------------------------------
(* Bounds                                                                  *)

MaxRuns == 2          \* pipeline runs (processes) in one behaviour
MaxWebOps == 1        \* schema set-ups by the web application in one behaviour
MaxStatements == 3    \* statements through the facade in one behaviour
MaxHttpCalls == 3     \* session.get calls followed within one make_api_request

----------------------------------------------------------------------------
(* Values                                                                  *)

NULL == -1            \* SQL NULL / Python None in an integer column
NULLT == "NULL"       \* SQL NULL / Python None in a text column
ABSENT == "ABSENT"    \* a key the payload does not carry

\* no make_api_request call in progress: http counts the session.get calls
\* of the call in progress, status is the outcome of the last session.get
\* that was followed
ApiIdle == [state |-> "idle", http |-> 0, status |-> "none", result |-> "None"]

\* the browser sessions on the CRUD page; none has submitted the form
Sessions == {"A", "B"}
NoSubmits == [s \in Sessions |-> [at |-> "form", id |-> 0, name |-> "",
                                  outcome |-> "none"]]

\* self.stats as the constructor sets it
NoCalls == [api_calls |-> 0, successful_calls |-> 0, failed_calls |-> 0]

\* Python truthiness of an id: None and 0 are falsy
Truthy(x) == x # NULL /\ x # 0

Max(S) == CHOOSE x \in S : \A y \in S : y <= x

RECURSIVE SumOver(_, _)
\* sum of f[r] over the rows r of the finite set S
SumOver(S, f) ==
    IF S = {} THEN 0
    ELSE LET r == CHOOSE x \in S : TRUE
         IN f[r] + SumOver(S \ {r}, f)

----------------------------------------------------------------------------
(* Identity Resolver: generate_player_id                                   *)

HashMod == 999999999
HashOffset == 1000000

\* the first 8 hex digits of md5("{key}_{name}_{team}") as two 16-bit halves
\* (a 32-bit value does not fit TLC's integers)
Md5Prefix(player_key, player_name, team_id) ==
    CASE player_key = "bat_1" /\ player_name = "Kohli" /\ team_id = 10 -> <<4779, 50520>>
      [] player_key = "bat_1" /\ player_name = "Kohli" /\ team_id = 20 -> <<37849, 7914>>
      [] player_key = "bat_1" /\ player_name = "Kohli" /\ team_id = NULL -> <<44726, 51762>>
      [] player_key = "bat_1" /\ player_name = "Smith" /\ team_id = 10 -> <<11566, 45471>>
      [] player_key = "bat_1" /\ player_name = "Smith" /\ team_id = 20 -> <<54760, 40986>>
      [] player_key = "bat_1" /\ player_name = "Smith" /\ team_id = NULL -> <<384, 8150>>
      [] player_key = "bowl_1" /\ player_name = "Kohli" /\ team_id = 10 -> <<16236, 53092>>
      [] player_key = "bowl_1" /\ player_name = "Kohli" /\ team_id = 20 -> <<37276, 26155>>
      [] player_key = "bowl_1" /\ player_name = "Kohli" /\ team_id = NULL -> <<54005, 28150>>
      [] player_key = "bowl_1" /\ player_name = "Smith" /\ team_id = 10 -> <<37700, 41372>>
      [] player_key = "bowl_1" /\ player_name = "Smith" /\ team_id = 20 -> <<13552, 42911>>
      [] player_key = "bowl_1" /\ player_name = "Smith" /\ team_id = NULL -> <<56840, 56750>>

RECURSIVE ShiftMod(_, _, _)
\* (v * 2^n) % m without leaving 32 bits
ShiftMod(v, n, m) == IF n = 0 THEN v % m ELSE ShiftMod((2 * (v % m)) % m, n - 1, m)

\* abs(int(prefix, 16)) % 999999999 + 1000000, prefix = hi * 2^16 + lo
FoldMissingOffset(prefix) ==
    (ShiftMod(prefix[1], 16, HashMod) + prefix[2]) % HashMod

Fold(prefix) ==
    ((ShiftMod(prefix[1], 16, HashMod) + prefix[2]) % HashMod) + HashOffset

generate_player_id(player_key, player_name, team_id) ==
    Fold(Md5Prefix(player_key, player_name, team_id))

----------------------------------------------------------------------------
(* Payloads of the match-listing endpoints                                 *)

Team(id, name) == [teamId |-> id, teamName |-> name]
Venue(id, ground) == [id |-> id, ground |-> ground]
NoVenue == [id |-> NULL, ground |-> ABSENT]
\* "venueInfo": null, a value without .get
NullVenue == [id |-> NULL, ground |-> "not an object"]

\* startDate in milliseconds since the epoch is <<days, ms of the day>>
MatchEntry(id, desc, t1, t2, v, start, state) ==
    [infoOk |-> TRUE, matchId |-> id, matchDesc |-> desc, team1 |-> t1,
     team2 |-> t2, venueInfo |-> v, startDate |-> start, stateTitle |-> state]

mIndAus == MatchEntry(501, "1st Test", Team(10, "India"), Team(20, "Australia"),
                      Venue(99, "Wankhede"), <<19000, 3600000>>, "Completed")
mIndAusLater == MatchEntry(501, "1st Test, Day 2", Team(20, "Australia"),
                      Team(10, "India"), NoVenue, <<19001, 0>>, "In Progress")
mAusInd == MatchEntry(502, ABSENT, Team(20, "Australia"), Team(10, "India"),
                      NoVenue, <<>>, ABSENT)
mNoId == MatchEntry(NULL, "2nd Test", Team(10, "India"), Team(20, "Australia"),
                      Venue(99, "Wankhede"), <<19000, 0>>, "Completed")
\* an entry whose matchInfo is null instead of an object
mNullInfo == [mAusInd EXCEPT !.infoOk = FALSE]
\* an entry whose venueInfo is null instead of an object
mNullVenue == MatchEntry(503, "3rd Test", Team(10, "India"), Team(20, "Australia"),
                      NullVenue, <<19002, 0>>, "Completed")

SeriesEntry(id, name, ms) ==
    [hasWrapper |-> TRUE, seriesId |-> id, seriesName |-> name, matches |-> ms]
AdEntry == [hasWrapper |-> FALSE, seriesId |-> NULL, seriesName |-> ABSENT,
            matches |-> <<>>]

TypeEntry(ss) == [hasSeries |-> TRUE, seriesMatches |-> ss]
EmptyType == [hasSeries |-> FALSE, seriesMatches |-> <<>>]

\* the end-to-end payload: one series, one match, India v Australia at Wankhede
pEndToEnd == <<TypeEntry(<<SeriesEntry(7, "BGT", <<mIndAus>>)>>)>>
pTwo == <<EmptyType,
          TypeEntry(<<AdEntry,
                      SeriesEntry(7, "BGT", <<mIndAusLater, mNoId, mAusInd>>)>>)>>
pNullInfo == <<TypeEntry(<<SeriesEntry(8, "Ashes", <<mAusInd, mNullInfo>>)>>)>>
pNullVenue == <<TypeEntry(<<SeriesEntry(7, "BGT", <<mNullVenue, mIndAus>>)>>)>>
\* a series entry that carries no seriesId
pNoSeriesId == <<TypeEntry(<<SeriesEntry(NULL, "BGT", <<mIndAus>>)>>)>>

\* a response of make_api_request is named; "None" is the call that got no data
Payload(name) ==
    CASE name = "pEndToEnd" -> pEndToEnd
      [] name = "pTwo" -> pTwo
      [] name = "pNullInfo" -> pNullInfo
      [] name = "pNullVenue" -> pNullVenue
      [] name = "pNoSeriesId" -> pNoSeriesId

RecentResponses == {"None", "pEndToEnd", "pTwo", "pNullInfo", "pNullVenue"}
LiveResponses == {"None", "pEndToEnd", "pNullInfo"}

----------------------------------------------------------------------------
(* Match Ingestor                                                          *)

\* an insert that looks at the primary key only
InsertOrIgnoreTeamKeyOnly(T, id, name) ==
    IF \E r \in T : r.team_id = id THEN T
    ELSE T \cup {[team_id |-> id, team_name |-> name, country |-> NULLT]}

\* INSERT OR IGNORE INTO teams (team_id, team_name, team_sname):
\* team_id is the primary key, team_name is UNIQUE NOT NULL
InsertOrIgnoreTeam(T, id, name) ==
    IF name = NULLT \/ \E r \in T : r.team_id = id \/ r.team_name = name
    THEN T
    ELSE T \cup {[team_id |-> id, team_name |-> name, country |-> NULLT]}

\* INSERT OR IGNORE INTO venues (venue_id, venue_name, city)
InsertOrIgnoreVenue(V, id, name) ==
    IF name = NULLT \/ \E r \in V : r.venue_id = id
    THEN V
    ELSE V \cup {[venue_id |-> id, venue_name |-> name]}

\* INSERT OR IGNORE INTO series (series_id, series_name): a NULL primary key
\* takes the next rowid
InsertOrIgnoreSeries(S, id, name) ==
    IF id = NULL
    THEN S \cup {[series_id |-> IF S = {} THEN 1
                                ELSE Max({r.series_id : r \in S}) + 1,
                  series_name |-> name]}
    ELSE IF \E r \in S : r.series_id = id
         THEN S
         ELSE S \cup {[series_id |-> id, series_name |-> name]}

MatchRow(id, desc, date, sid, t1, t2, v, status, winner) ==
    [match_id |-> id, match_desc |-> desc, match_date |-> date,
     series_id |-> sid, team1_id |-> t1, team2_id |-> t2, venue_id |-> v,
     match_status |-> status, match_winner_id |-> winner]

\* an upsert that keeps the stored row and drops the new one
InsertOrReplaceMatchKeepsOld(M, row) ==
    IF \E r \in M : r.match_id = row.match_id THEN M ELSE M \cup {row}

\* INSERT OR REPLACE INTO matches (...): the row with the same match_id is
\* deleted, the columns the statement does not name take their defaults
InsertOrReplaceMatch(M, row) ==
    {r \in M : r.match_id # row.match_id} \cup {row}

\* datetime.fromtimestamp(int(start_date_ts) / 1000).date(); None when the
\* timestamp is absent
StartDateToDate(start) == IF start = <<>> THEN NULL ELSE start[1]

\* dict.get(key, default)
Get(value, default) == IF value = ABSENT THEN default ELSE value

\* 'Live' if is_live else match_info.get('stateTitle', 'Completed')
MatchStatus(match, is_live) ==
    IF is_live THEN "Live" ELSE Get(match.stateTitle, "Completed")

\* a match upsert that records the first team as the winner
MatchRowOfWithWinner(match, series_id, is_live) ==
    MatchRow(match.matchId, Get(match.matchDesc, NULLT),
             StartDateToDate(match.startDate), series_id, match.team1.teamId,
             match.team2.teamId, match.venueInfo.id,
             MatchStatus(match, is_live), match.team1.teamId)

\* the row store_match_data writes for a match entry
MatchRowOf(match, series_id, is_live) ==
    MatchRow(match.matchId, Get(match.matchDesc, NULLT),
             StartDateToDate(match.startDate), series_id, match.team1.teamId,
             match.team2.teamId, match.venueInfo.id,
             MatchStatus(match, is_live), NULL)

\* store_match_data on the open transaction tx (the four listing tables);
\* venue_info.get on a null venueInfo raises AttributeError after the teams
\* were inserted, and the function's handler logs it and returns
store_match_data(tx, match, series_id, is_live) ==
    IF ~Truthy(match.matchId) THEN tx
    ELSE IF match.venueInfo = NullVenue
    THEN LET t1 == IF Truthy(match.team1.teamId)
                   THEN InsertOrIgnoreTeam(tx.teams, match.team1.teamId,
                            Get(match.team1.teamName, "Unknown Team"))
                   ELSE tx.teams
         IN [tx EXCEPT !.teams =
                IF Truthy(match.team2.teamId)
                THEN InsertOrIgnoreTeam(t1, match.team2.teamId,
                         Get(match.team2.teamName, "Unknown Team"))
                ELSE t1]
    ELSE
      LET t1 == IF Truthy(match.team1.teamId)
                THEN InsertOrIgnoreTeam(tx.teams, match.team1.teamId,
                         Get(match.team1.teamName, "Unknown Team"))
                ELSE tx.teams
          t2 == IF Truthy(match.team2.teamId)
                THEN InsertOrIgnoreTeam(t1, match.team2.teamId,
                         Get(match.team2.teamName, "Unknown Team"))
                ELSE t1
          v  == IF Truthy(match.venueInfo.id)
                THEN InsertOrIgnoreVenue(tx.venues, match.venueInfo.id,
                         Get(match.venueInfo.ground, "Unknown Venue"))
                ELSE tx.venues
      IN [tx EXCEPT
            !.teams = t2,
            !.venues = v,
            !.matches = InsertOrReplaceMatch(tx.matches,
                            MatchRowOf(match, series_id, is_live))]

RECURSIVE StoreMatches(_, _, _, _)
\* the loop over series_info['matches']; a matchInfo that is not an object
\* raises AttributeError outside store_match_data's own handler
StoreMatches(tx, ms, series_id, is_live) ==
    IF ms = <<>> \/ tx.raised THEN tx
    ELSE IF ~Head(ms).infoOk THEN [tx EXCEPT !.raised = TRUE]
    ELSE StoreMatches(store_match_data(tx, Head(ms), series_id, is_live),
                      Tail(ms), series_id, is_live)

RECURSIVE StoreSeries(_, _, _)
\* the loop over type_match['seriesMatches']; entries without a
\* seriesAdWrapper are skipped; only the recent feed stores the series row
StoreSeries(tx, ss, is_live) ==
    IF ss = <<>> \/ tx.raised THEN tx
    ELSE LET s == Head(ss)
             tx1 == IF is_live THEN tx
                    ELSE [tx EXCEPT !.series =
                            InsertOrIgnoreSeries(tx.series, s.seriesId,
                                Get(s.seriesName, "Unknown Series"))]
         IN IF ~s.hasWrapper THEN StoreSeries(tx, Tail(ss), is_live)
            ELSE StoreSeries(StoreMatches(tx1, s.matches, s.seriesId, is_live),
                             Tail(ss), is_live)

RECURSIVE StoreTypes(_, _, _)
\* the loop over data['typeMatches']; groups without seriesMatches are skipped
StoreTypes(tx, ts, is_live) ==
    IF ts = <<>> \/ tx.raised THEN tx
    ELSE IF ~Head(ts).hasSeries THEN StoreTypes(tx, Tail(ts), is_live)
         ELSE StoreTypes(StoreSeries(tx, Head(ts).seriesMatches, is_live),
                         Tail(ts), is_live)

\* the transaction a listing ingestion opens on the stored tables
ListingTx == [teams |-> teams, venues |-> venues, series |-> series,
              matches |-> matches, raised |-> FALSE]

\* a batch whose connection is closed without a commit
CommittedNever(tx0, tx) == tx0

\* a handler that commits what the batch wrote before the exception
CommittedDespiteError(tx0, tx) == tx

\* conn.commit() at the end of the batch, conn.rollback() when an exception
\* escaped: the tables the call leaves stored
Committed(tx0, tx) == IF tx.raised THEN tx0 ELSE tx

\* fetch_recent_matches (is_live = FALSE) and fetch_live_matches (TRUE) on
\* the response resp of the endpoint
IngestListing(resp, is_live) ==
    IF resp = "None" THEN ListingTx
    ELSE Committed(ListingTx, StoreTypes(ListingTx, Payload(resp), is_live))

ListingOutcome(resp, is_live) ==
    IF resp = "None" THEN "no data"
    ELSE IF StoreTypes(ListingTx, Payload(resp), is_live).raised
         THEN "rolled back" ELSE "committed"

\* the body of fetch_recent_matches once make_api_request has returned resp
RecentMatches(resp) ==
    LET tx == IngestListing(resp, FALSE)
        outcome == ListingOutcome(resp, FALSE)
    IN /\ teams' = tx.teams
       /\ venues' = tx.venues
       /\ series' = tx.series
       /\ matches' = tx.matches
       /\ lastOp' = "fetch_recent_matches"
       /\ lastArg' = resp
       /\ lastResult' = outcome
       /\ lastIngest' = IF outcome = "committed" THEN <<"recent", resp>>
                        ELSE lastIngest
       /\ pc' = "live"
       /\ UNCHANGED <<players, pmp, team_statistics, schema, runs, webOps,
                      idCalls>>

\* the body of fetch_live_matches once make_api_request has returned resp
LiveMatches(resp) ==
    LET tx == IngestListing(resp, TRUE)
        outcome == ListingOutcome(resp, TRUE)
    IN /\ teams' = tx.teams
       /\ venues' = tx.venues
       /\ series' = tx.series
       /\ matches' = tx.matches
       /\ lastOp' = "fetch_live_matches"
       /\ lastArg' = resp
       /\ lastResult' = outcome
       /\ lastIngest' = IF outcome = "committed" THEN <<"live", resp>>
                        ELSE lastIngest
       /\ pc' = "teams"
       /\ UNCHANGED <<players, pmp, team_statistics, schema, runs, webOps,
                      idCalls>>

\* fetch_recent_matches with the exchange with the endpoint folded into the
\* choice of what make_api_request returns
fetch_recent_matches ==
    /\ pc = "recent"
    /\ api.state = "idle"
    /\ \E resp \in RecentResponses : RecentMatches(resp)
    /\ UNCHANGED <<api, stats, crud>>

fetch_live_matches ==
    /\ pc = "live"
    /\ api.state = "idle"
    /\ \E resp \in LiveResponses : LiveMatches(resp)
    /\ UNCHANGED <<api, stats, crud>>

----------------------------------------------------------------------------
(* Team country back-fill                                                  *)

\* country_mapping, in the order the dict literal lists its keys
country_mapping ==
    << <<"india", "India">>, <<"australia", "Australia">>,
       <<"england", "England">>, <<"pakistan", "Pakistan">>,
       <<"south africa", "South Africa">>, <<"new zealand", "New Zealand">>,
       <<"sri lanka", "Sri Lanka">>, <<"bangladesh", "Bangladesh">>,
       <<"afghanistan", "Afghanistan">>, <<"west indies", "West Indies">>,
       <<"ireland", "Ireland">>, <<"scotland", "Scotland">>,
       <<"netherlands", "Netherlands">>, <<"zimbabwe", "Zimbabwe">>,
       <<"hong kong", "Hong Kong">>, <<"uae", "United Arab Emirates">>,
       <<"united arab emirates", "United Arab Emirates">> >>

\* the mapping keys that occur in team_name.lower(), for the team names of
\* the model
KeysIn(team_name) ==
    CASE team_name = "India" -> {"india"}
      [] team_name = "Australia" -> {"australia"}
      [] team_name = "England" -> {"england"}
      [] team_name = "Pakistan" -> {"pakistan"}
      [] team_name = "South Africa" -> {"south africa"}
      [] team_name = "New Zealand" -> {"new zealand"}
      [] team_name = "Royal Pakistan XI" -> {"pakistan"}
      [] team_name = "Pakistan v India Legends" -> {"india", "pakistan"}
      [] team_name = "ENGLAND LIONS" -> {"england"}
      [] team_name = "UAE" -> {"uae"}
      [] team_name = "West Indies" -> {"west indies"}
      [] team_name = "Northern Ireland Netherlands XI" ->
             {"ireland", "netherlands"}
      [] OTHER -> {}

RECURSIVE LastMatch(_, _, _)
\* a loop that does not return at the first key found: the last one wins
LastMatch(mapping, keys, default) ==
    IF mapping = <<>> THEN default
    ELSE IF Head(mapping)[1] \in keys
         THEN LastMatch(Tail(mapping), keys, Head(mapping)[2])
         ELSE LastMatch(Tail(mapping), keys, default)

RECURSIVE FirstMatch(_, _, _)
\* the loop over country_mapping.items(): the first key found wins
FirstMatch(mapping, keys, default) ==
    IF mapping = <<>> THEN default
    ELSE IF Head(mapping)[1] \in keys THEN Head(mapping)[2]
         ELSE FirstMatch(Tail(mapping), keys, default)

determine_country_from_team_name(team_name) ==
    FirstMatch(country_mapping, KeysIn(team_name), team_name)

\* fetch_teams_data: UPDATE teams SET country = ? for every team
fetch_teams_data ==
    /\ pc = "teams"
    /\ teams' = {[r EXCEPT !.country =
                    determine_country_from_team_name(r.team_name)] : r \in teams}
    /\ pc' = "scorecards"
    /\ lastOp' = "fetch_teams_data"
    /\ lastArg' = "None"
    /\ lastResult' = "committed"
    /\ UNCHANGED <<api, stats, crud, venues, series, matches, players, pmp, team_statistics,
                   schema, runs, webOps, lastIngest, idCalls>>

----------------------------------------------------------------------------
(* Scorecard Ingestor                                                      *)

\* CREATE TABLE IF NOT EXISTS keeps the table of whichever initializer ran
\* first: only the fetcher's players table has the player_key column
PlayersHasKey == schema = "fetcher"
\* only the fetcher's player_match_performance has player_key and the
\* UNIQUE(match_id, player_id, innings_number) constraint
PmpHasKeyAndUnique == schema \in {"fetcher", "app"}

BatEntry(key, name, r, b) ==
    [isDict |-> TRUE, key |-> key, name |-> name, runs |-> r, balls |-> b]
BowlEntry(key, name, w, r) ==
    [isDict |-> TRUE, key |-> key, name |-> name, wickets |-> w, runs |-> r]
InningsEntry(bt, bat, wt, bowl) ==
    [hasBat |-> TRUE, batTeamId |-> bt, batsmen |-> bat,
     hasBowl |-> TRUE, bowlTeamId |-> wt, bowlers |-> bowl]

\* one innings in which Kohli both bats and bowls under the same key and team
scAllRounder ==
    <<InningsEntry(10, <<BatEntry("bat_1", "Kohli", 50, 40)>>,
                   10, <<BowlEntry("bat_1", "Kohli", 2, 30)>>)>>
\* bowling figures only
scBowlers ==
    <<InningsEntry(10, <<>>, 20, <<BowlEntry("bowl_1", "Smith", 3, 25)>>)>>
\* Kohli bowls in the first innings and bats in the second
scBowlThenBat ==
    <<InningsEntry(20, <<>>, 10, <<BowlEntry("bat_1", "Kohli", 1, 12)>>),
      InningsEntry(10, <<BatEntry("bat_1", "Kohli", 30, 20)>>,
                   20, <<BowlEntry("bowl_1", "Smith", 0, 44)>>)>>

\* Kohli bowls and does not bat
scPartTimer ==
    <<InningsEntry(20, <<>>, 10, <<BowlEntry("bat_1", "Kohli", 1, 12)>>)>>

Scorecard(name) ==
    CASE name = "scAllRounder" -> [hasScoreCard |-> TRUE, scoreCard |-> scAllRounder]
      [] name = "scPartTimer" -> [hasScoreCard |-> TRUE, scoreCard |-> scPartTimer]
      [] name = "scBowlers" -> [hasScoreCard |-> TRUE, scoreCard |-> scBowlers]
      [] name = "scBowlThenBat" -> [hasScoreCard |-> TRUE, scoreCard |-> scBowlThenBat]
      [] name = "scNoCard" -> [hasScoreCard |-> FALSE, scoreCard |-> <<>>]

ScorecardNames == {"scAllRounder", "scBowlers", "scBowlThenBat", "scPartTimer",
                   "scNoCard"}
\* what make_api_request hands the batch for a selected match
ScorecardResponses == {"None", "scAllRounder", "scBowlers", "scBowlThenBat"}

PlayerRow(id, name, team, role, key) ==
    [player_id |-> id, player_name |-> name, team_id |-> team, role |-> role,
     player_key |-> key, matches_played |-> 0, runs_scored |-> 0,
     wickets_taken |-> 0, batting_average |-> 0, strike_rate |-> 0]

\* an INSERT OR REPLACE in its place: the stored row gives way to the new one
InsertOrReplacePlayer(P, id, name, team, role, key) ==
    {r \in P : r.player_id # id} \cup {PlayerRow(id, name, team, role, key)}

\* INSERT OR IGNORE INTO players (player_id, player_name, team_id, role,
\* player_key)
InsertOrIgnorePlayer(P, id, name, team, role, key) ==
    IF \E r \in P : r.player_id = id THEN P
    ELSE P \cup {PlayerRow(id, name, team, role, key)}

NextId(ids) == IF ids = {} THEN 1 ELSE Max(ids) + 1

PmpRow(perf, pid, mid, team, inn, r, b, w, c) ==
    [performance_id |-> perf, player_id |-> pid, match_id |-> mid,
     team_id |-> team, innings_number |-> inn, runs_scored |-> r,
     balls_faced |-> b, wickets_taken |-> w, runs_conceded |-> c]

\* a table without the UNIQUE constraint never reports a conflict
PmpConflictNoUnique(P, pid, mid, inn) == FALSE

\* UNIQUE(match_id, player_id, innings_number): a stored row has this triple
PmpConflict(P, pid, mid, inn) ==
    \E r \in P : r.player_id = pid /\ r.match_id = mid /\ r.innings_number = inn

\* INSERT INTO player_match_performance (... batting columns ...)
\* ON CONFLICT(match_id, player_id, innings_number) DO UPDATE SET the
\* batting columns
UpsertBatting(P, pid, mid, team, inn, r, b) ==
    IF PmpConflict(P, pid, mid, inn)
    THEN {IF row.player_id = pid /\ row.match_id = mid /\ row.innings_number = inn
          THEN [row EXCEPT !.runs_scored = r, !.balls_faced = b]
          ELSE row : row \in P}
    ELSE P \cup {PmpRow(NextId({row.performance_id : row \in P}),
                        pid, mid, team, inn, r, b, 0, 0)}

\* INSERT OR IGNORE INTO player_match_performance (player_id, match_id,
\* team_id, innings_number, player_key)
InsertOrIgnorePmp(P, pid, mid, team, inn) ==
    IF PmpConflict(P, pid, mid, inn) THEN P
    ELSE P \cup {PmpRow(NextId({row.performance_id : row \in P}),
                        pid, mid, team, inn, 0, 0, 0, 0)}

\* UPDATE player_match_performance SET the bowling columns
\* WHERE player_id = ? AND match_id = ? AND innings_number = ?
UpdateBowling(P, pid, mid, inn, w, c) ==
    {IF row.player_id = pid /\ row.match_id = mid /\ row.innings_number = inn
     THEN [row EXCEPT !.wickets_taken = w, !.runs_conceded = c]
     ELSE row : row \in P}

\* the parameter tuple of the batting statement names team_id, which is
\* bound neither in store_scorecard_data_fixed nor in the module: building
\* it raises NameError before the statement runs
BattingParamsBound == FALSE

\* one entry of batsmenData
StoreBatsman(tx, match_id, innings_num, bat_team_id, e) ==
    LET id == generate_player_id(e.key, e.name, bat_team_id)
        tx1 == [tx EXCEPT !.calls = @ \cup {<<e.key, e.name, bat_team_id, id>>}]
    IN IF ~PlayersHasKey THEN [tx1 EXCEPT !.raised = TRUE]
       ELSE LET tx2 == [tx1 EXCEPT !.players =
                          InsertOrIgnorePlayer(@, id, e.name, bat_team_id,
                                               "Batsman", e.key)]
            IN IF ~BattingParamsBound \/ ~PmpHasKeyAndUnique
               THEN [tx2 EXCEPT !.raised = TRUE]
               ELSE [tx2 EXCEPT !.pmp = UpsertBatting(@, id, match_id, bat_team_id,
                                            innings_num, e.runs, e.balls),
                                !.added = @ + 1]

\* one entry of bowlersData
StoreBowler(tx, match_id, innings_num, bowl_team_id, e) ==
    LET id == generate_player_id(e.key, e.name, bowl_team_id)
        tx1 == [tx EXCEPT !.calls = @ \cup {<<e.key, e.name, bowl_team_id, id>>}]
    IN IF ~PlayersHasKey THEN [tx1 EXCEPT !.raised = TRUE]
       ELSE LET tx2 == [tx1 EXCEPT !.players =
                          InsertOrIgnorePlayer(@, id, e.name, bowl_team_id,
                                               "Bowler", e.key)]
            IN IF ~PmpHasKeyAndUnique THEN [tx2 EXCEPT !.raised = TRUE]
               ELSE [tx2 EXCEPT !.pmp =
                        UpdateBowling(
                            InsertOrIgnorePmp(@, id, match_id, bowl_team_id,
                                              innings_num),
                            id, match_id, innings_num, e.wickets, e.runs),
                                !.added = @ + 1]

RECURSIVE StoreBatsmen(_, _, _, _, _)
\* the loop over batsmenData.items(); entries that are not dicts are skipped
StoreBatsmen(tx, match_id, innings_num, bat_team_id, es) ==
    IF es = <<>> \/ tx.raised THEN tx
    ELSE IF ~Head(es).isDict
         THEN StoreBatsmen(tx, match_id, innings_num, bat_team_id, Tail(es))
         ELSE StoreBatsmen(StoreBatsman(tx, match_id, innings_num, bat_team_id,
                                        Head(es)),
                           match_id, innings_num, bat_team_id, Tail(es))

RECURSIVE StoreBowlers(_, _, _, _, _)
\* the loop over bowlersData.items()
StoreBowlers(tx, match_id, innings_num, bowl_team_id, es) ==
    IF es = <<>> \/ tx.raised THEN tx
    ELSE IF ~Head(es).isDict
         THEN StoreBowlers(tx, match_id, innings_num, bowl_team_id, Tail(es))
         ELSE StoreBowlers(StoreBowler(tx, match_id, innings_num, bowl_team_id,
                                       Head(es)),
                           match_id, innings_num, bowl_team_id, Tail(es))

RECURSIVE StoreInnings(_, _, _, _)
\* the loop over enumerate(innings_list, 1): an innings without
\* batTeamDetails is skipped whole, bowling follows batting
StoreInnings(tx, match_id, innings_list, innings_num) ==
    IF innings_list = <<>> \/ tx.raised THEN tx
    ELSE LET inn == Head(innings_list)
             tx1 == StoreBatsmen(tx, match_id, innings_num, inn.batTeamId,
                                 inn.batsmen)
             tx2 == IF inn.hasBowl
                    THEN StoreBowlers(tx1, match_id, innings_num, inn.bowlTeamId,
                                      inn.bowlers)
                    ELSE tx1
         IN IF ~inn.hasBat
            THEN StoreInnings(tx, match_id, Tail(innings_list), innings_num + 1)
            ELSE StoreInnings(tx2, match_id, Tail(innings_list), innings_num + 1)

\* store_scorecard_data_fixed on the open transaction: an exception is
\* caught and logged (returning 0), what was written before it stays in the
\* transaction
store_scorecard_data_fixed(tx, match_id, scorecard_data) ==
    IF ~scorecard_data.hasScoreCard THEN [tx EXCEPT !.added = 0]
    ELSE LET out == StoreInnings([tx EXCEPT !.added = 0, !.raised = FALSE],
                                 match_id, scorecard_data.scoreCard, 1)
         IN [out EXCEPT !.added = IF out.raised THEN 0 ELSE @,
                        !.failed = out.raised,
                        !.raised = FALSE]

ScorecardTx == [players |-> players, pmp |-> pmp, calls |-> idCalls,
                raised |-> FALSE, failed |-> FALSE, added |-> 0]

ScorecardBatchLimit == 3

\* a selection without the LEFT JOIN ... WHERE pmp.match_id IS NULL
EveryStoredMatch == matches

\* matches m LEFT JOIN player_match_performance pmp ... WHERE pmp.match_id
\* IS NULL: the matches without a performance row
NoPerformance ==
 {m \in matches : ~\E r \in pmp : r.match_id = m.match_id}

Min(a, b) == IF a <= b THEN a ELSE b

\* ORDER BY m.match_date DESC LIMIT 3: every order the statement may return
\* (NULL dates sort last, the order among equal dates is not specified)
Selections ==
    LET k == Min(ScorecardBatchLimit, Cardinality(NoPerformance))
    IN {sel \in [1..k -> NoPerformance] :
          /\ \A i, j \in 1..k : i < j =>
                /\ sel[i] # sel[j]
                /\ sel[i].match_date >= sel[j].match_date
          /\ \A m \in NoPerformance :
                (\A i \in 1..k : sel[i] # m) =>
                    \A i \in 1..k : sel[i].match_date >= m.match_date}

RECURSIVE ProcessBatch(_, _, _)
\* the loop over matches_to_fetch; match_desc[:30] raises TypeError on a
\* NULL description, outside store_scorecard_data_fixed's handler
ProcessBatch(tx, sel, resps) ==
    IF sel = <<>> \/ tx.raised THEN tx
    ELSE IF Head(sel).match_desc = NULLT THEN [tx EXCEPT !.raised = TRUE]
    ELSE IF Head(resps) = "None"
         THEN ProcessBatch(tx, Tail(sel), Tail(resps))
         ELSE ProcessBatch(
                  store_scorecard_data_fixed(tx, Head(sel).match_id,
                                             Scorecard(Head(resps))),
                  Tail(sel), Tail(resps))

\* the body of fetch_match_scorecards when make_api_request answers the
\* selected matches with one of resps each
ScorecardBatch(responses) ==
    /\ \E sel \in Selections :
       \E resps \in [1..Len(sel) -> responses] :
         LET tx == ProcessBatch(ScorecardTx, sel, resps)
         IN /\ lastArg' = [i \in 1..Len(sel) |-> sel[i].match_id]
            /\ players' = IF tx.raised THEN players ELSE tx.players
            /\ pmp' = IF tx.raised THEN pmp ELSE tx.pmp
            /\ idCalls' = tx.calls
            /\ lastResult' = IF sel = <<>> THEN "nothing to fetch"
                             ELSE IF tx.raised THEN "rolled back"
                             ELSE "committed"
    /\ lastOp' = "fetch_match_scorecards"
    /\ UNCHANGED <<api, stats, crud, teams, venues, series, matches, team_statistics, schema,
                   runs, webOps, lastIngest>>

fetch_match_scorecards ==
    /\ pc = "scorecards"
    /\ ScorecardBatch(ScorecardResponses)
    /\ pc' = "player_stats"

----------------------------------------------------------------------------
(* Aggregator                                                              *)

\* ROUND(n / d, 2) in hundredths, n given in hundredths: half rounds up
RoundDivTruncates(n, d) == n \div d

RoundDiv(n, d) == (2 * n + d) \div (2 * d)

PerformancesOf(P, pid) == {r \in P : r.player_id = pid}

Runs(S) == SumOver(S, [r \in S |-> r.runs_scored])
Balls(S) == SumOver(S, [r \in S |-> r.balls_faced])
Wickets(S) == SumOver(S, [r \in S |-> r.wickets_taken])

\* an average without the CASE guard: AVG over no rows is NULL
BattingAverageNullOnEmpty(P, pid) ==
    LET q == {r \in PerformancesOf(P, pid) : r.runs_scored > 0}
    IN IF Cardinality(q) > 0 THEN RoundDiv(Runs(q) * 100, Cardinality(q)) ELSE NULL

\* CASE WHEN COUNT(*) > 0 THEN ROUND(CAST(SUM(runs_scored) AS FLOAT)
\* / COUNT(*), 2) ELSE 0.0 END ... WHERE runs_scored > 0
BattingAverage(P, pid) ==
    LET q == {r \in PerformancesOf(P, pid) : r.runs_scored > 0}
    IN IF Cardinality(q) > 0 THEN RoundDiv(Runs(q) * 100, Cardinality(q)) ELSE 0

\* CASE WHEN SUM(balls_faced) > 0 THEN ROUND(CAST(SUM(runs_scored) AS FLOAT)
\* * 100 / SUM(balls_faced), 2) ELSE 0.0 END ... WHERE balls_faced > 0
StrikeRate(P, pid) ==
    LET q == {r \in PerformancesOf(P, pid) : r.balls_faced > 0}
    IN IF q # {} /\ Balls(q) > 0 THEN RoundDiv(Runs(q) * 10000, Balls(q)) ELSE 0

\* an update that adds the totals to the stored ones
AggregatedIncrementally(P, row) ==
    [row EXCEPT
        !.matches_played =
            @ + Cardinality({r.match_id : r \in PerformancesOf(P, row.player_id)}),
        !.runs_scored = @ + Runs(PerformancesOf(P, row.player_id)),
        !.wickets_taken = @ + Wickets(PerformancesOf(P, row.player_id)),
        !.batting_average = BattingAverage(P, row.player_id),
        !.strike_rate = StrikeRate(P, row.player_id)]

\* the row UPDATE players SET ... leaves for a player
Aggregated(P, row) ==
    [row EXCEPT
        !.matches_played =
            Cardinality({r.match_id : r \in PerformancesOf(P, row.player_id)}),
        !.runs_scored = Runs(PerformancesOf(P, row.player_id)),
        !.wickets_taken = Wickets(PerformancesOf(P, row.player_id)),
        !.batting_average = BattingAverage(P, row.player_id),
        !.strike_rate = StrikeRate(P, row.player_id)]

\* UPDATE players SET ... (no WHERE clause: every row), then conn.commit()
RecomputePlayers ==
    /\ players' = {Aggregated(pmp, row) : row \in players}
    /\ lastArg' = lastOp
    /\ lastOp' = "update_player_statistics"
    /\ lastResult' = "committed"

\* an aggregation started alongside the scorecard batch instead of after it
update_player_statistics_unordered ==
    /\ pc \in {"scorecards", "player_stats"}
    /\ RecomputePlayers
    /\ pc' = "team_stats"
    /\ UNCHANGED <<api, stats, crud, teams, venues, series, matches, pmp, team_statistics, schema,
                   runs, webOps, lastIngest, idCalls>>

update_player_statistics ==
    /\ pc = "player_stats"
    /\ RecomputePlayers
    /\ pc' = "team_stats"
    /\ UNCHANGED <<api, stats, crud, teams, venues, series, matches, pmp, team_statistics, schema,
                   runs, webOps, lastIngest, idCalls>>

\* a count that leaves out the match_status filter
TeamStatRowAnyStatus(M, team_id) ==
    LET played == {m \in M : m.team1_id = team_id \/ m.team2_id = team_id}
        won == {m \in played : m.match_winner_id = team_id}
    IN [team_id |-> team_id, matches_played |-> Cardinality(played),
        matches_won |-> Cardinality(won),
        matches_lost |-> Cardinality(played) - Cardinality(won)]

\* SELECT COUNT(*), SUM(CASE WHEN match_winner_id = ? THEN 1 ELSE 0 END)
\* FROM matches WHERE (team1_id = ? OR team2_id = ?) AND match_status =
\* 'Completed'
TeamStatRow(M, team_id) ==
    LET played == {m \in M : /\ (m.team1_id = team_id \/ m.team2_id = team_id)
                             /\ m.match_status = "Completed"}
        won == {m \in played : m.match_winner_id = team_id}
    IN [team_id |-> team_id, matches_played |-> Cardinality(played),
        matches_won |-> Cardinality(won),
        matches_lost |-> Cardinality(played) - Cardinality(won)]

\* INSERT OR REPLACE INTO team_statistics (team_id, ...): the table's only
\* key is stat_id, which the statement leaves to the next rowid, so no stored
\* row ever conflicts and the row is added
InsertOrReplaceTeamStat(B, row) == B (+) SetToBag({row})

RECURSIVE StoreTeamStats(_, _, _)
StoreTeamStats(B, M, ids) ==
    IF ids = {} THEN B
    ELSE LET id == CHOOSE x \in ids : TRUE
         IN StoreTeamStats(InsertOrReplaceTeamStat(B, TeamStatRow(M, id)), M,
                           ids \ {id})

update_team_statistics ==
    /\ pc = "team_stats"
    /\ team_statistics' =
          StoreTeamStats(team_statistics, matches, {t.team_id : t \in teams})
    /\ pc' = "done"
    /\ lastOp' = "update_team_statistics"
    /\ lastArg' = "None"
    /\ lastResult' = "committed"
    /\ UNCHANGED <<api, stats, crud, teams, venues, series, matches, players, pmp, schema, runs,
                   webOps, lastIngest, idCalls>>

\* main(): a new process constructs the fetcher (init_database creates only
\* the tables that do not exist yet) and starts fetch_and_store_all_data
StartRun ==
    /\ pc = "done"
    /\ runs < MaxRuns
    /\ runs' = runs + 1
    /\ pc' = "recent"
    /\ lastOp' = "init_database"
    /\ lastArg' = "None"
    /\ lastResult' = "committed"
    /\ UNCHANGED <<api, stats, crud, teams, venues, series, matches, players, pmp,
                   team_statistics, schema, webOps, lastIngest, idCalls>>

----------------------------------------------------------------------------
(* The web application: schema set-up with sample rows, and the facade     *)

TeamRow(id, name, country) ==
    [team_id |-> id, team_name |-> name, country |-> country]

\* teams_data of insert_sample_data
AppTeams ==
    {TeamRow(1, "India", "India"), TeamRow(2, "Australia", "Australia"),
     TeamRow(3, "England", "England"), TeamRow(4, "Pakistan", "Pakistan")}

StoredPlayer(id, name, team, role, mp, r, w, avg, sr) ==
    [player_id |-> id, player_name |-> name, team_id |-> team, role |-> role,
     player_key |-> NULLT, matches_played |-> mp, runs_scored |-> r,
     wickets_taken |-> w, batting_average |-> avg, strike_rate |-> sr]

\* players_data of insert_sample_data
AppPlayers ==
    {StoredPlayer(1, "Virat Kohli", 1, "Batsman", 254, 12169, 0, 4995, 8150),
     StoredPlayer(2, "Rohit Sharma", 1, "Batsman", 227, 9205, 0, 4225, 8360),
     StoredPlayer(3, "Steve Smith", 2, "Batsman", 128, 4378, 1, 4334, 8210)}

\* teams_data of insert_comprehensive_sample_data
SampleTeams ==
    AppTeams \cup {TeamRow(5, "South Africa", "South Africa"),
                   TeamRow(6, "New Zealand", "New Zealand")}

SampleVenues ==
    {[venue_id |-> 1, venue_name |-> "Wankhede Stadium"],
     [venue_id |-> 2, venue_name |-> "Melbourne Cricket Ground"],
     [venue_id |-> 3, venue_name |-> "Lords Cricket Ground"],
     [venue_id |-> 4, venue_name |-> "Eden Gardens"]}

SampleSeries ==
    {[series_id |-> 1, series_name |-> "India vs Australia 2024"],
     [series_id |-> 2, series_name |-> "England vs Pakistan 2024"],
     [series_id |-> 3, series_name |-> "World Cup 2024"]}

\* matches_data; the dates are days since the epoch
SampleMatches ==
    {MatchRow(1, "India vs Australia 1st ODI", 19737, 1, 1, 2, 1, "Completed", 1),
     MatchRow(2, "India vs Australia 2nd ODI", 19740, 1, 1, 2, 2, "Completed", 2),
     MatchRow(3, "England vs Pakistan 1st Test", 19787, 2, 3, 4, 3, "Completed", 3)}

SamplePlayers ==
    {StoredPlayer(1, "Virat Kohli", 1, "Batsman", 274, 12169, 4, 5818, 9317),
     StoredPlayer(2, "Rohit Sharma", 1, "Batsman", 243, 9205, 8, 4686, 8890),
     StoredPlayer(3, "Steve Smith", 2, "Batsman", 138, 8010, 17, 6180, 8640),
     StoredPlayer(4, "Joe Root", 3, "Batsman", 151, 9300, 32, 4920, 8470),
     StoredPlayer(5, "Babar Azam", 4, "Batsman", 102, 4442, 0, 4550, 8720),
     StoredPlayer(6, "Pat Cummins", 2, "Bowler", 44, 535, 164, 1940, 7910),
     StoredPlayer(7, "Jasprit Bumrah", 1, "Bowler", 30, 99, 128, 830, 6540)}

\* performance_data
SamplePmp ==
    {PmpRow(1, 1, 1, 1, 1, 89, 95, 0, 0), PmpRow(2, 2, 1, 1, 1, 142, 137, 0, 0),
     PmpRow(3, 3, 1, 2, 1, 67, 78, 0, 0), PmpRow(4, 6, 2, 2, 2, 25, 18, 3, 42),
     PmpRow(5, 7, 2, 1, 2, 5, 8, 4, 38)}

\* INSERT OR IGNORE of sample rows, none of which conflicts with another:
\* a row goes in unless a stored row conflicts with it
TeamsWith(T, rows) ==
    T \cup {n \in rows :
              ~\E r \in T : r.team_id = n.team_id \/ r.team_name = n.team_name}
PlayersWith(P, rows) ==
    P \cup {n \in rows : ~\E r \in P : r.player_id = n.player_id}
VenuesWith(V, rows) ==
    V \cup {n \in rows : ~\E r \in V : r.venue_id = n.venue_id}
SeriesWith(S, rows) ==
    S \cup {n \in rows : ~\E r \in S : r.series_id = n.series_id}
MatchesWith(M, rows) ==
    M \cup {n \in rows : ~\E r \in M : r.match_id = n.match_id}
PmpWith(P, rows) ==
    P \cup {n \in rows :
              /\ ~\E r \in P : r.performance_id = n.performance_id
              /\ ~(PmpHasKeyAndUnique /\
                   PmpConflict(P, n.player_id, n.match_id, n.innings_number))}

\* app.py main() -> db_connection.init_database(): teams and players are
\* created if absent and the sample rows inserted
init_database ==
    /\ webOps < MaxWebOps
    /\ webOps' = webOps + 1
    /\ IF schema = "unusable"
       THEN /\ lastResult' = "False"
            /\ UNCHANGED <<teams, players>>
       ELSE /\ teams' = TeamsWith(teams, AppTeams)
            /\ players' = PlayersWith(players, AppPlayers)
            /\ lastResult' = "True"
    /\ schema' = IF schema = "none" THEN "app only" ELSE schema
    /\ lastOp' = "app.init_database"
    /\ lastArg' = "None"
    /\ UNCHANGED <<api, stats, crud, venues, series, matches, pmp, team_statistics, pc,
                   runs, lastIngest, idCalls>>

\* sql_queries.init_sample_database(), the page's button
init_sample_database ==
    /\ webOps < MaxWebOps
    /\ webOps' = webOps + 1
    /\ teams' = TeamsWith(teams, SampleTeams)
    /\ venues' = VenuesWith(venues, SampleVenues)
    /\ series' = SeriesWith(series, SampleSeries)
    /\ matches' = MatchesWith(matches, SampleMatches)
    /\ players' = PlayersWith(players, SamplePlayers)
    /\ pmp' = PmpWith(pmp, SamplePmp)
    /\ lastOp' = "init_sample_database"
    /\ lastArg' = "None"
    /\ lastResult' = "True"
    /\ UNCHANGED <<api, stats, crud, team_statistics, schema, pc, runs, lastIngest, idCalls>>

\* the statements handed to execute_update: the three of the CRUD page and
\* an insert into teams
Statements ==
    {[kind |-> "insert_player", id |-> 8, name |-> "MS Dhoni", matches |-> 5,
      runs |-> 100, average |-> 2000],
     [kind |-> "update_player", id |-> 8, name |-> "Dhoni", matches |-> 6,
      runs |-> 130, average |-> 2167],
     [kind |-> "delete_player", id |-> 8],
     [kind |-> "insert_team", id |-> 7, name |-> "India"],
     [kind |-> "insert_team", id |-> 10, name |-> "Kenya"]}

\* a players table without a primary key
PlayerKeyNeverTaken(P, id) == FALSE

\* PRIMARY KEY of players
PlayerKeyTaken(P, id) == \E r \in P : r.player_id = id

\* a teams table that checks only its primary key
TeamKeyOrNameTakenKeyOnly(T, id, name) == \E r \in T : r.team_id = id

\* PRIMARY KEY and UNIQUE(team_name) of teams
TeamKeyOrNameTaken(T, id, name) ==
    \E r \in T : r.team_id = id \/ r.team_name = name

\* cursor.execute(query, params) on a fresh connection: the working copy of
\* the two tables the statements touch, and whether sqlite3 raised
Execute(stmt) ==
    LET tx == [teams |-> teams, players |-> players, raised |-> FALSE]
    IN CASE stmt.kind = "insert_player" ->
              IF PlayerKeyTaken(players, stmt.id) THEN [tx EXCEPT !.raised = TRUE]
              ELSE [tx EXCEPT !.players = @ \cup
                      {[StoredPlayer(stmt.id, stmt.name, NULL, NULLT, stmt.matches,
                                     stmt.runs, 0, stmt.average, 0)
                        EXCEPT !.player_key = NULLT]}]
         [] stmt.kind = "update_player" ->
              [tx EXCEPT !.players =
                  {IF r.player_id = stmt.id
                   THEN [r EXCEPT !.player_name = stmt.name,
                                  !.matches_played = stmt.matches,
                                  !.runs_scored = stmt.runs,
                                  !.batting_average = stmt.average]
                   ELSE r : r \in @}]
         [] stmt.kind = "delete_player" ->
              [tx EXCEPT !.players = {r \in @ : r.player_id # stmt.id}]
         [] stmt.kind = "insert_team" ->
              IF TeamKeyOrNameTaken(teams, stmt.id, stmt.name)
              THEN [tx EXCEPT !.raised = TRUE]
              ELSE [tx EXCEPT !.teams = @ \cup {TeamRow(stmt.id, stmt.name, NULLT)}]

\* an except branch that reports success
ReturnValueAlwaysTrue(raised) == "True"

\* return True after conn.commit(), return False after conn.rollback()
ReturnValue(raised) == IF raised THEN "False" ELSE "True"

\* execute_update: commit and True, or rollback and False
execute_update ==
    /\ webOps < MaxStatements
    /\ webOps' = webOps + 1
    /\ \E stmt \in Statements :
         LET tx == Execute(stmt)
         IN /\ teams' = IF tx.raised THEN teams ELSE tx.teams
            /\ players' = IF tx.raised THEN players ELSE tx.players
            /\ lastResult' = ReturnValue(tx.raised)
            /\ lastArg' = stmt
    /\ lastOp' = "execute_update"
    /\ UNCHANGED <<api, stats, crud, venues, series, matches, pmp, team_statistics, schema, pc,
                   runs, lastIngest, idCalls>>

----------------------------------------------------------------------------
(* The program                                                             *)

\* the file as the fetcher's constructor leaves it: every table exists, each
\* with the schema of the initializer that created it first
InitTables ==
    \/ /\ schema = "fetcher"
       /\ teams = {} /\ players = {}
       /\ venues = {} /\ series = {} /\ matches = {} /\ pmp = {}
    \/ /\ schema = "app"
       /\ teams = AppTeams /\ players = AppPlayers
       /\ venues = {} /\ series = {} /\ matches = {} /\ pmp = {}
    \/ /\ schema = "sample"
       /\ teams = TeamsWith(AppTeams, SampleTeams)
       /\ players = PlayersWith(AppPlayers, SamplePlayers)
       /\ venues = SampleVenues /\ series = SampleSeries
       /\ matches = SampleMatches /\ pmp = SamplePmp

Init ==
    /\ InitTables
    /\ team_statistics = EmptyBag
    /\ pc = "recent"
    /\ runs = 1
    /\ webOps = 0
    /\ lastOp = "init_database"
    /\ lastArg = "None"
    /\ lastResult = "committed"
    /\ lastIngest = <<>>
    /\ idCalls = {}
    /\ api = ApiIdle
    /\ stats = NoCalls
    /\ crud = NoSubmits

Next ==
    \/ fetch_recent_matches
    \/ fetch_live_matches
    \/ fetch_teams_data
    \/ fetch_match_scorecards
    \/ update_player_statistics
    \/ update_team_statistics
    \/ StartRun
    \/ init_database
    \/ init_sample_database

Spec == Init /\ [][Next]_vars

----------------------------------------------------------------------------
(* The facade alone: statements through execute_update on the file the     *)
(* web application set up                                                  *)

NextFacade ==
    \/ execute_update
    \/ init_database
    \/ init_sample_database

SpecFacade == Init /\ [][NextFacade]_vars

----------------------------------------------------------------------------
(* The Scorecard Ingestor alone: store_scorecard_data_fixed applied to any *)
(* match and scorecard, any number of times                                *)

IngestMatchIds == {501, 502}

\* one pass of the batch loop for a match whose scorecard arrived, followed
\* by the batch's conn.commit()
IngestScorecard ==
    /\ \E match_id \in IngestMatchIds, name \in ScorecardNames :
         LET tx == store_scorecard_data_fixed(ScorecardTx, match_id,
                                              Scorecard(name))
         IN /\ players' = tx.players
            /\ pmp' = tx.pmp
            /\ idCalls' = tx.calls
            /\ lastArg' = <<match_id, name>>
            /\ lastResult' = IF tx.failed THEN "failed" ELSE "stored"
    /\ lastOp' = "store_scorecard_data_fixed"
    /\ UNCHANGED <<api, stats, crud, teams, venues, series, matches, team_statistics, schema, pc,
                   runs, webOps, lastIngest>>

NextIngest == IngestScorecard

SpecIngest == Init /\ [][NextIngest]_vars

----------------------------------------------------------------------------
(* The Aggregator alone: update_player_statistics as a function of the     *)
(* stored players and performances                                         *)

\* performance rows a file may hold for players 1 and 2
PmpPool ==
    {PmpRow(1, 1, 501, 10, 1, 50, 40, 0, 0), PmpRow(2, 1, 502, 10, 1, 30, 20, 1, 9),
     PmpRow(3, 1, 502, 10, 2, 0, 0, 2, 31), PmpRow(4, 2, 501, 20, 1, 25, 18, 0, 0),
     PmpRow(5, 2, 501, 20, 2, 0, 7, 3, 12)}

\* players with the aggregates an earlier run, the sample data or the CRUD
\* page left
PlayerPool ==
    {StoredPlayer(1, "Virat Kohli", 1, "Batsman", 254, 12169, 0, 4995, 8150),
     StoredPlayer(1, "Virat Kohli", 1, "Batsman", 0, 0, 0, 0, 0),
     StoredPlayer(2, "Steve Smith", 2, "Batsman", 128, 4378, 1, 4334, 8210),
     StoredPlayer(3, "MS Dhoni", NULL, NULLT, 5, 100, 0, 2000, 0)}

InitAgg ==
    /\ schema = "fetcher"
    /\ teams = {} /\ venues = {} /\ series = {} /\ matches = {}
    /\ pmp \in SUBSET PmpPool
    /\ players \in {P \in SUBSET PlayerPool :
                      \A a, b \in P : a.player_id = b.player_id => a = b}
    /\ team_statistics = EmptyBag
    /\ pc = "player_stats"
    /\ runs = 1
    /\ webOps = 0
    /\ lastOp = "fetch_match_scorecards"
    /\ lastArg = "None"
    /\ lastResult = "committed"
    /\ lastIngest = <<>>
    /\ idCalls = {}
    /\ api = ApiIdle
    /\ stats = NoCalls
    /\ crud = NoSubmits

\* update_player_statistics applied to the stored tables
ApplyAggregator ==
    /\ RecomputePlayers
    /\ UNCHANGED <<api, stats, crud, teams, venues, series, matches, pmp, team_statistics, schema,
                   pc, runs, webOps, lastIngest, idCalls>>

NextAgg == ApplyAggregator

SpecAgg == InitAgg /\ [][NextAgg]_vars

----------------------------------------------------------------------------
(* The country back-fill alone: fetch_teams_data applied to any stored     *)
(* teams                                                                   *)

\* team rows a file may hold before the back-fill: country still NULL or
\* left by an earlier run
TeamPool ==
    {TeamRow(31, "Royal Pakistan XI", NULLT),
     TeamRow(32, "Kenya", NULLT),
     TeamRow(33, "Pakistan v India Legends", NULLT),
     TeamRow(34, "ENGLAND LIONS", "England"),
     TeamRow(35, "UAE", NULLT),
     TeamRow(36, "West Indies", "India"),
     TeamRow(37, "Northern Ireland Netherlands XI", NULLT)}

InitTeams ==
    /\ schema = "fetcher"
    /\ teams \in SUBSET TeamPool
    /\ venues = {} /\ series = {} /\ matches = {} /\ players = {} /\ pmp = {}
    /\ team_statistics = EmptyBag
    /\ pc = "teams"
    /\ runs = 1
    /\ webOps = 0
    /\ lastOp = "fetch_live_matches"
    /\ lastArg = "None"
    /\ lastResult = "no data"
    /\ lastIngest = <<>>
    /\ idCalls = {}
    /\ api = ApiIdle
    /\ stats = NoCalls
    /\ crud = NoSubmits

NextTeams == fetch_teams_data

SpecTeams == InitTeams /\ [][NextTeams]_vars

----------------------------------------------------------------------------
(* The exchange with the API: make_api_request one session.get at a time,  *)
(* and the listing steps on what it returns                                *)

\* what one session.get and the decoding of its body can end in: a status
\* code, a status 200 whose body is not JSON, or a RequestException
HttpOutcomes == {"200", "200 undecodable", "429", "500", "timeout",
                 "connection error"}

\* the counters after one invocation of make_api_request: api_calls on
\* entry, successful_calls on status 200 before the body is decoded,
\* failed_calls on 429, on any other status and in both except clauses
Counted(s, status) ==
    [api_calls |-> s.api_calls + 1,
     successful_calls |-> s.successful_calls +
         (IF status \in {"200", "200 undecodable"} THEN 1 ELSE 0),
     failed_calls |-> s.failed_calls + (IF status = "200" THEN 0 ELSE 1)]

\* a make_api_request that lets a timeout escape
DispositionTimeoutRaises(status) ==
    CASE status = "200" -> "data"
      [] status = "429" -> "retry"
      [] status = "timeout" -> "raise"
      [] OTHER -> "None"

\* what make_api_request does with the outcome of session.get: return the
\* body, wait and call itself again, or return None (any other status code
\* and every exception)
Disposition(status) ==
    CASE status = "200" -> "data"
      [] status = "429" -> "retry"
      [] OTHER -> "None"

\* the bodies the endpoint of the running step can answer with
Bodies(step) == IF step = "recent" THEN RecentResponses ELSE LiveResponses

\* one invocation of make_api_request, the first of a listing step or the
\* one a 429 led to after the 60 second countdown
make_api_request ==
    /\ pc \in {"recent", "live"}
    /\ api.state \in {"idle", "retrying"}
    /\ api.http < MaxHttpCalls
    /\ \E status \in HttpOutcomes, body \in Bodies(pc) :
         LET d == Disposition(status)
         IN /\ d = "retry" => api.http + 1 < MaxHttpCalls
            /\ api' = [state |-> IF d = "retry" THEN "retrying" ELSE "returned",
                       http |-> api.http + 1,
                       status |-> status,
                       result |-> CASE d = "data" -> body
                                    [] d = "raise" -> "raised"
                                    [] OTHER -> "None"]
            /\ stats' = Counted(stats, status)
    /\ UNCHANGED <<crud, teams, venues, series, matches, players, pmp,
                   team_statistics, schema, pc, runs, webOps, lastOp, lastArg,
                   lastResult, lastIngest, idCalls>>

\* an exception that leaves a step reaches the except clause of
\* fetch_and_store_all_data: the remaining steps do not run
StepRaised ==
    /\ pc' = "done"
    /\ lastOp' = "fetch_and_store_all_data"
    /\ lastArg' = "None"
    /\ lastResult' = "raised"
    /\ UNCHANGED <<teams, venues, series, matches, players, pmp,
                   team_statistics, schema, runs, webOps, lastIngest, idCalls>>

\* fetch_recent_matches from the return of its make_api_request call
RecentOnResponse ==
    /\ pc = "recent"
    /\ api.state = "returned"
    /\ IF api.result = "raised" THEN StepRaised ELSE RecentMatches(api.result)
    /\ api' = [ApiIdle EXCEPT !.status = api.status]
    /\ UNCHANGED <<stats, crud>>

\* fetch_live_matches from the return of its make_api_request call
LiveOnResponse ==
    /\ pc = "live"
    /\ api.state = "returned"
    /\ IF api.result = "raised" THEN StepRaised ELSE LiveMatches(api.result)
    /\ api' = [ApiIdle EXCEPT !.status = api.status]
    /\ UNCHANGED <<stats, crud>>

NextApi ==
    \/ make_api_request
    \/ RecentOnResponse
    \/ LiveOnResponse

SpecApi == Init /\ [][NextApi]_vars

----------------------------------------------------------------------------
(* Start-up: a process of the fetcher or of the web application on a file  *)
(* no initializer has touched yet                                          *)

AllTables == {"teams", "venues", "series", "matches", "players",
              "player_match_performance", "team_statistics"}

\* the tables that exist in the file: db_connection.init_database creates
\* teams and players, the fetcher's init_database all seven
TablesOf(s) ==
    CASE s \in {"none", "unusable"} -> {}
      [] s = "app only" -> {"teams", "players"}
      [] OTHER -> AllTables

PipelineSteps == <<"recent", "live", "teams", "scorecards", "player_stats",
                   "team_stats", "done">>
StepNames == <<"fetch_recent_matches", "fetch_live_matches", "fetch_teams_data",
               "fetch_match_scorecards", "update_player_statistics",
               "update_team_statistics">>
StepIndex(step) == CHOOSE i \in 1..Len(PipelineSteps) : PipelineSteps[i] = step

\* main() of the fetcher: CricbuzzDataFetcher.__init__ runs init_database,
\* whose except clause logs a failed CREATE TABLE and returns, and main()
\* goes on to fetch_and_store_all_data
Construct ==
    /\ pc = "not started"
    /\ runs' = runs + 1
    /\ pc' = "recent"
    /\ lastOp' = "init_database"
    /\ lastArg' = "None"
    /\ lastResult' = IF schema = "unusable" THEN "failed" ELSE "committed"
    /\ schema' = CASE schema = "none" -> "fetcher"
                   [] schema = "app only" -> "app"
                   [] OTHER -> schema
    /\ UNCHANGED <<api, stats, crud, teams, venues, series, matches, players, pmp,
                   team_statistics, webOps, lastIngest, idCalls>>

\* a step of fetch_and_store_all_data on a file that takes no statement:
\* the first cursor.execute raises inside the step's try, the step logs,
\* rolls back and returns; a listing step that got no data returns before
\* it opens the file
StepOnUnusableStore ==
    /\ schema = "unusable"
    /\ pc \in {"recent", "live", "teams", "scorecards", "player_stats",
               "team_stats"}
    /\ lastOp' = StepNames[StepIndex(pc)]
    /\ lastArg' = "None"
    /\ lastResult' \in IF pc \in {"recent", "live"}
                       THEN {"no data", "rolled back"} ELSE {"rolled back"}
    /\ pc' = PipelineSteps[StepIndex(pc) + 1]
    /\ UNCHANGED <<api, stats, crud, teams, venues, series, matches, players, pmp,
                   team_statistics, schema, runs, webOps, lastIngest, idCalls>>

\* execute_query of the web application on one table, after main() has
\* called init_database: None when the statement fails
execute_query ==
    /\ webOps >= 1
    /\ \E table \in AllTables :
         /\ lastArg' = table
         /\ lastResult' = IF table \in TablesOf(schema) THEN "rows" ELSE "None"
    /\ lastOp' = "execute_query"
    /\ UNCHANGED <<api, stats, crud, teams, venues, series, matches, players, pmp,
                   team_statistics, schema, pc, runs, webOps, lastIngest,
                   idCalls>>

InitStartup ==
    /\ schema \in {"none", "unusable"}
    /\ teams = {} /\ venues = {} /\ series = {} /\ matches = {}
    /\ players = {} /\ pmp = {}
    /\ team_statistics = EmptyBag
    /\ pc = "not started"
    /\ runs = 0
    /\ webOps = 0
    /\ lastOp = "none"
    /\ lastArg = "None"
    /\ lastResult = "None"
    /\ lastIngest = <<>>
    /\ idCalls = {}
    /\ api = ApiIdle
    /\ stats = NoCalls
    /\ crud = NoSubmits

NextStartup ==
    \/ Construct
    \/ schema # "unusable" /\ fetch_recent_matches
    \/ schema # "unusable" /\ fetch_live_matches
    \/ schema # "unusable" /\ fetch_teams_data
    \/ schema # "unusable" /\ fetch_match_scorecards
    \/ schema # "unusable" /\ update_player_statistics
    \/ schema # "unusable" /\ update_team_statistics
    \/ StepOnUnusableStore
    \/ init_database
    \/ execute_query

SpecStartup == InitStartup /\ [][NextStartup]_vars

----------------------------------------------------------------------------
(* The scorecard batch alone: fetch_match_scorecards on any stored matches *)
(* and performances                                                        *)

\* match rows a file may hold: two on the same date, one without a date
MatchPool ==
    {MatchRow(601, "1st ODI", 19001, 7, 10, 20, 99, "Completed", NULL),
     MatchRow(602, "2nd ODI", 19003, 7, 10, 20, 99, "Completed", NULL),
     MatchRow(603, "3rd ODI", 19003, 7, 20, 10, NULL, "Live", NULL),
     MatchRow(604, "Only T20I", 19007, 8, 10, 20, 99, "Completed", NULL),
     MatchRow(605, "Warm-up", NULL, 8, 20, 10, NULL, "Completed", NULL)}

\* performance rows an earlier batch may have stored for 602 and 604
SelectPmpPool ==
    {PmpRow(1, 1, 602, 10, 1, 50, 40, 0, 0),
     PmpRow(2, 2, 604, 20, 1, 0, 0, 2, 31)}

InitSelect ==
    /\ schema = "fetcher"
    /\ teams = {} /\ venues = {} /\ series = {} /\ players = {}
    /\ matches \in SUBSET MatchPool
    /\ pmp \in SUBSET SelectPmpPool
    /\ team_statistics = EmptyBag
    /\ pc = "scorecards"
    /\ runs = 1
    /\ webOps = 0
    /\ lastOp = "fetch_teams_data"
    /\ lastArg = "None"
    /\ lastResult = "committed"
    /\ lastIngest = <<>>
    /\ idCalls = {}
    /\ api = ApiIdle
    /\ stats = NoCalls
    /\ crud = NoSubmits

NextSelect == fetch_match_scorecards

SpecSelect == InitSelect /\ [][NextSelect]_vars

----------------------------------------------------------------------------
(* The scorecard batch of run after run on the same stored matches, with   *)
(* an API that answers every request with a scorecard                      *)

\* the scorecards the endpoint answers with: one that opens with a batting
\* entry, one with bowling figures only
AnsweredScorecards == {"scAllRounder", "scBowlers"}

InitStarve ==
    /\ schema = "fetcher"
    /\ teams = {} /\ venues = {} /\ series = {} /\ players = {}
    /\ matches = MatchPool
    /\ pmp = {}
    /\ team_statistics = EmptyBag
    /\ pc = "scorecards"
    /\ runs = 1
    /\ webOps = 0
    /\ lastOp = "fetch_teams_data"
    /\ lastArg = "None"
    /\ lastResult = "committed"
    /\ lastIngest = <<>>
    /\ idCalls = {}
    /\ api = ApiIdle
    /\ stats = NoCalls
    /\ crud = NoSubmits

\* fetch_match_scorecards when every request is answered with a scorecard
AnsweredBatch ==
    /\ pc = "scorecards"
    /\ ScorecardBatch(AnsweredScorecards)
    /\ pc' = "player_stats"

\* main() once more: the constructor finds the tables in place, the listing
\* endpoints bring no match that is not stored and the back-fill finds the
\* teams as they are, so the run arrives at its scorecard batch with the
\* tables the run before left
RunAgain ==
    /\ pc = "done"
    /\ pc' = "scorecards"
    /\ lastOp' = "fetch_teams_data"
    /\ lastArg' = "None"
    /\ lastResult' = "committed"
    /\ UNCHANGED <<api, stats, crud, teams, venues, series, matches, players, pmp,
                   team_statistics, schema, runs, webOps, lastIngest, idCalls>>

NextStarve ==
    \/ AnsweredBatch
    \/ update_player_statistics
    \/ update_team_statistics
    \/ RunAgain

\* a step of the single thread that runs the pipeline, run after run
StepTaken ==
    /\ pc' \in {"scorecards", "player_stats", "team_stats", "done"}
    /\ pc' # pc

\* the thread is never held up: each step returns and the next one starts
SpecStarve == InitStarve /\ [][NextStarve]_vars /\ WF_pc(StepTaken)

----------------------------------------------------------------------------
(* fetch_recent_matches called again and again on one file                 *)

MaxCalls == 3         \* calls of fetch_recent_matches in one behaviour

\* the payloads the call stores and commits, with and without a seriesId
RerunResponses == {"pEndToEnd", "pTwo", "pNullVenue", "pNoSeriesId"}

fetch_recent_matches_again ==
    /\ pc = "recent"
    /\ api.state = "idle"
    /\ \E resp \in RerunResponses : RecentMatches(resp)
    /\ UNCHANGED <<api, stats, crud>>

\* the caller calls fetch_recent_matches once more
CallAgain ==
    /\ pc = "live"
    /\ runs < MaxCalls
    /\ runs' = runs + 1
    /\ pc' = "recent"
    /\ UNCHANGED <<api, stats, crud, teams, venues, series, matches, players, pmp,
                   team_statistics, schema, webOps, lastOp, lastArg,
                   lastResult, lastIngest, idCalls>>

NextRerun == fetch_recent_matches_again \/ CallAgain

SpecRerun == Init /\ [][NextRerun]_vars

----------------------------------------------------------------------------
(* The CRUD page: sessions submitting the add-player form on one file      *)

\* player ids and names entered in the form: 1 is a stored sample player
FormIds == {1, 18}
FormNames == {"Gill", "Pant"}

\* create_new_player_record up to the result of its check query: the
\* count of players rows with the id, read on a connection of its own
CheckPlayerId(s) ==
    /\ crud[s].at = "form"
    /\ \E id \in FormIds, name \in FormNames :
         crud' = [crud EXCEPT ![s] =
                    IF Cardinality({p \in players : p.player_id = id}) > 0
                    THEN [at |-> "done", id |-> id, name |-> name,
                          outcome |-> "already exists"]
                    ELSE [at |-> "checked", id |-> id, name |-> name,
                          outcome |-> "none"]]
    /\ lastOp' = "execute_query"
    /\ lastArg' = s
    /\ lastResult' = "rows"
    /\ UNCHANGED <<api, stats, teams, venues, series, matches, players, pmp,
                   team_statistics, schema, pc, runs, webOps, lastIngest,
                   idCalls>>

\* the rest of create_new_player_record: the INSERT through execute_update
\* and the message for its return value
InsertPlayer(s) ==
    /\ crud[s].at = "checked"
    /\ LET stmt == [kind |-> "insert_player", id |-> crud[s].id,
                    name |-> crud[s].name, matches |-> 5, runs |-> 100,
                    average |-> 2000]
           tx == Execute(stmt)
       IN /\ players' = IF tx.raised THEN players ELSE tx.players
          /\ lastResult' = ReturnValue(tx.raised)
          /\ lastArg' = stmt
          /\ crud' = [crud EXCEPT ![s].at = "done",
                                  ![s].outcome = IF tx.raised THEN "failed"
                                                 ELSE "added"]
    /\ lastOp' = "execute_update"
    /\ UNCHANGED <<api, stats, teams, venues, series, matches, pmp,
                   team_statistics, schema, pc, runs, webOps, lastIngest,
                   idCalls>>

create_new_player_record == \E s \in Sessions : CheckPlayerId(s) \/ InsertPlayer(s)

\* the file once app.py main() has called init_database
InitCrud ==
    /\ schema \in {"fetcher", "app"}
    /\ teams = AppTeams /\ players = AppPlayers
    /\ venues = {} /\ series = {} /\ matches = {} /\ pmp = {}
    /\ team_statistics = EmptyBag
    /\ pc = "done"
    /\ runs = 1
    /\ webOps = 1
    /\ lastOp = "app.init_database"
    /\ lastArg = "None"
    /\ lastResult = "True"
    /\ lastIngest = <<>>
    /\ idCalls = {}
    /\ api = ApiIdle
    /\ stats = NoCalls
    /\ crud = NoSubmits

NextCrud == create_new_player_record

SpecCrud == InitCrud /\ [][NextCrud]_vars

----------------------------------------------------------------------------
(* Properties of the Scorecard Ingestor and the Identity Resolver          *)
(* (SpecIngest)                                                            *)

SameTriple(r1, r2) ==
    /\ r1.match_id = r2.match_id
    /\ r1.player_id = r2.player_id
    /\ r1.innings_number = r2.innings_number

\* C1: however often and in whatever order scorecards are ingested,
\* player_match_performance never holds two rows with the same
\* (match_id, player_id, innings_number)
C1_PmpTripleUnique ==
    \A r1, r2 \in pmp : SameTriple(r1, r2) => r1 = r2

\* the bowling scorecard of match 501 was ingested again after its row
\* (performance 1) and a later row (performance 2) had been stored
C1_Reingested ==
    /\ lastOp = "store_scorecard_data_fixed"
    /\ lastArg = <<501, "scBowlers">>
    /\ lastResult = "stored"
    /\ \E r1, r2 \in pmp :
         /\ r1.match_id = 501
         /\ r1.player_id = generate_player_id("bowl_1", "Smith", 20)
         /\ r1.performance_id = 1
         /\ r2.performance_id = 2

\* C2: after store_scorecard_data_fixed has processed a scorecard in which
\* the same player bats and bowls in the same innings, there is exactly one
\* row for that (match, player, innings), holding the batting entry's runs
\* and balls and the bowling entry's wickets and runs conceded
C2_OneMergedRow ==
    (schema = "fetcher" /\ lastOp = "store_scorecard_data_fixed"
        /\ lastArg[2] = "scAllRounder")
    => LET id == generate_player_id("bat_1", "Kohli", 10)
           rows == {r \in pmp : /\ r.match_id = lastArg[1]
                                /\ r.player_id = id
                                /\ r.innings_number = 1}
       IN /\ Cardinality(rows) = 1
          /\ \A r \in rows : /\ r.runs_scored = 50
                             /\ r.balls_faced = 40
                             /\ r.wickets_taken = 2
                             /\ r.runs_conceded = 30

\* digests at the ends of the fold: 0, the largest value below the modulus,
\* the modulus itself, and ffffffff
BoundaryPrefixes == {<<0, 0>>, <<15258, 51710>>, <<15258, 51711>>, <<65535, 65535>>}

----------------------------------------------------------------------------
(* Properties of the pipeline (Spec)                                       *)

\* the match entries of a payload, by position: group, series, match
Positions(p) ==
    UNION {UNION {{<<i, j, k>> : k \in 1 .. Len(p[i].seriesMatches[j].matches)}
                  : j \in 1 .. Len(p[i].seriesMatches)}
           : i \in 1 .. Len(p)}

EntryAt(p, pos) == p[pos[1]].seriesMatches[pos[2]].matches[pos[3]]
SeriesAt(p, pos) == p[pos[1]].seriesMatches[pos[2]].seriesId

\* a is visited before b
Before(a, b) ==
    \/ a[1] < b[1]
    \/ a[1] = b[1] /\ a[2] < b[2]
    \/ a[1] = b[1] /\ a[2] = b[2] /\ a[3] < b[3]

\* the entries of p that get stored and are the last of their match id
LastOfId(p) ==
    {pos \in Positions(p) :
        /\ Truthy(EntryAt(p, pos).matchId)
        /\ EntryAt(p, pos).venueInfo # NullVenue
        /\ ~\E q \in Positions(p) :
              Before(pos, q) /\ EntryAt(p, q).matchId = EntryAt(p, pos).matchId}

\* what a committed ingestion of a listing feed leaves in matches
UpsertedBy(op, feed, is_live) ==
    (lastOp' = op /\ pc' # pc /\ lastResult' = "committed")
    => LET p == Payload(lastArg')
       IN /\ \A pos \in LastOfId(p) :
                {r \in matches' : r.match_id = EntryAt(p, pos).matchId}
                  = {MatchRowOf(EntryAt(p, pos), SeriesAt(p, pos), is_live)}
          /\ lastIngest = <<feed, lastArg'>> => matches' = matches

\* C3: after a match id is ingested, whether it was stored before or not,
\* matches holds exactly one row for it and the row carries the fields of
\* this ingestion (status Live or the payload's state included); ingesting
\* the same payload again changes no row
C3_UpsertKeepsLatest ==
    [][/\ UpsertedBy("fetch_recent_matches", "recent", FALSE)
       /\ UpsertedBy("fetch_live_matches", "live", TRUE)]_vars

\* match 501 was stored by the recent feed together with 502, and the live
\* feed then ingested 501 again
C3_Overwritten ==
    /\ lastOp = "fetch_live_matches"
    /\ lastArg = "pEndToEnd"
    /\ lastResult = "committed"
    /\ \E r \in matches : r.match_id = 502
    /\ MatchRowOf(mIndAus, 7, TRUE) \in matches
    /\ Cardinality({r \in matches : r.match_id = 501}) = 1

\* rows of team_statistics for a team
StatRows(team_id) ==
    LET S == {r \in BagToSet(team_statistics) : r.team_id = team_id}
    IN SumOver(S, [r \in S |-> CopiesIn(r, team_statistics)])

\* C5: after every run of update_team_statistics, team_statistics holds
\* exactly one row for each team in teams
C5_OneStatRowPerTeam ==
    lastOp = "update_team_statistics"
    => \A t \in teams : StatRows(t.team_id) = 1

\* C10: from empty teams, venues, series and matches, one
\* fetch_recent_matches call on the payload with one series and one match,
\* India (10) v Australia (20) at Wankhede (99), leaves exactly two teams
\* rows, one venues row, one series row and one matches row
C10_EndToEnd ==
    [][(/\ teams = {} /\ venues = {} /\ series = {} /\ matches = {}
        /\ pc = "recent"
        /\ lastOp' = "fetch_recent_matches"
        /\ lastArg' = "pEndToEnd")
       => /\ Cardinality(teams') = 2
          /\ {<<t.team_id, t.team_name>> : t \in teams'}
               = {<<10, "India">>, <<20, "Australia">>}
          /\ Cardinality(venues') = 1
          /\ \A v \in venues' : v.venue_id = 99 /\ v.venue_name = "Wankhede"
          /\ Cardinality(series') = 1
          /\ Cardinality(matches') = 1
          /\ \A m \in matches' : m.match_id = 501]_vars

\* the first call of the first run on the fresh file got the payload
C10_FirstIngestion ==
    /\ schema = "fetcher" /\ runs = 1 /\ webOps = 0
    /\ lastOp = "fetch_recent_matches"
    /\ lastArg = "pEndToEnd"
    /\ Cardinality(teams) = 2
    /\ Cardinality(venues) = 1
    /\ Cardinality(series) = 1
    /\ Cardinality(matches) = 1

----------------------------------------------------------------------------
(* Properties of the Aggregator (SpecAgg)                                  *)

Mine(P, row) == {r \in P : r.player_id = row.player_id}

\* the three totals of a players row are those of its performance rows
HoldsTotals(P, row) ==
    /\ row.matches_played = Cardinality({r.match_id : r \in Mine(P, row)})
    /\ row.runs_scored =
         SumOver(Mine(P, row), [r \in Mine(P, row) |-> r.runs_scored])
    /\ row.wickets_taken =
         SumOver(Mine(P, row), [r \in Mine(P, row) |-> r.wickets_taken])

\* C6: a run of update_player_statistics leaves every players row, whatever
\* it held before, with the aggregates of its current performance rows,
\* touches nothing else of the row and adds or drops no row; a second run
\* straight after the first changes nothing
C6_TotalAndIdempotent ==
    [][lastOp' = "update_player_statistics"
       => /\ \A row \in players' :
               /\ HoldsTotals(pmp', row)
               /\ row.batting_average = BattingAverage(pmp', row.player_id)
               /\ row.strike_rate = StrikeRate(pmp', row.player_id)
          /\ {<<r.player_id, r.player_name, r.team_id, r.role>> : r \in players'}
               = {<<r.player_id, r.player_name, r.team_id, r.role>> : r \in players}
          /\ lastOp = "update_player_statistics" => players' = players]_vars

\* the second of two runs in a row, on a player whose stored aggregates the
\* first run replaced
C6_SecondRun ==
    /\ lastOp = "update_player_statistics"
    /\ lastArg = "update_player_statistics"
    /\ \E row \in players :
         /\ row.player_id = 1
         /\ row.matches_played = 2
         /\ row.runs_scored = 80
         /\ row.wickets_taken = 3

\* C7: after update_player_statistics, a player with no performance row
\* having runs_scored > 0 has batting_average 0.0 and a player with none
\* having balls_faced > 0 has strike_rate 0.0 (neither NULL nor an error);
\* a player with no rows at all is both
C7_ZeroWhenNoRows ==
    lastOp = "update_player_statistics"
    => \A row \in players :
         /\ (~\E r \in Mine(pmp, row) : r.runs_scored > 0)
              => row.batting_average = 0
         /\ (~\E r \in Mine(pmp, row) : r.balls_faced > 0)
              => row.strike_rate = 0

\* a player without rows who had an average stored, and a player whose only
\* row has balls but no runs
C7_NoQualifyingRows ==
    /\ lastOp = "update_player_statistics"
    /\ \E row \in players :
         row.player_id = 3 /\ row.batting_average = 0 /\ row.strike_rate = 0
    /\ \E row \in players :
         /\ row.player_id = 2
         /\ Mine(pmp, row) = {PmpRow(5, 2, 501, 20, 2, 0, 7, 3, 12)}
         /\ row.batting_average = 0

\* v (in hundredths) is n / d rounded to 2 decimals, n in hundredths
Rounds(v, n, d) == 2 * (v * d - n) <= d /\ 2 * (n - v * d) < d

\* C8: after update_player_statistics, batting_average is the sum of
\* runs_scored over the player's rows with runs_scored > 0 divided by their
\* count, and strike_rate is that sum over the rows with balls_faced > 0
\* times 100 divided by their balls_faced, both rounded to 2 decimals; rows
\* (50, 40) and (30, 20) give 133.33 and 40.0
C8_AverageAndStrikeRate ==
    lastOp = "update_player_statistics"
    => \A row \in players :
         LET bat == {r \in Mine(pmp, row) : r.runs_scored > 0}
             faced == {r \in Mine(pmp, row) : r.balls_faced > 0}
             scored(S) == SumOver(S, [r \in S |-> r.runs_scored])
             balls == SumOver(faced, [r \in faced |-> r.balls_faced])
         IN /\ bat # {}
                => Rounds(row.batting_average, 100 * scored(bat), Cardinality(bat))
            /\ faced # {}
                => Rounds(row.strike_rate, 100 * 100 * scored(faced), balls)
            /\ (/\ bat = faced
                /\ Cardinality(bat) = 2
                /\ {<<r.runs_scored, r.balls_faced>> : r \in bat}
                     = {<<50, 40>>, <<30, 20>>})
                => row.strike_rate = 13333 /\ row.batting_average = 4000

\* the player with rows (50, 40) and (30, 20) after a run
C8_Example ==
    /\ lastOp = "update_player_statistics"
    /\ {PmpRow(1, 1, 501, 10, 1, 50, 40, 0, 0),
        PmpRow(2, 1, 502, 10, 1, 30, 20, 1, 9)} \subseteq pmp
    /\ \E row \in players :
         /\ row.player_id = 1
         /\ row.strike_rate = 13333
         /\ row.batting_average = 4000

----------------------------------------------------------------------------
(* Properties of the facade (SpecFacade)                                   *)

\* the statement breaks PRIMARY KEY or UNIQUE on the stored rows
Violates(stmt) ==
    \/ /\ stmt.kind = "insert_team"
       /\ \E r \in teams : r.team_id = stmt.id \/ r.team_name = stmt.name
    \/ /\ stmt.kind = "insert_player"
       /\ \E r \in players : r.player_id = stmt.id

\* the statement's change is in the stored tables after the step
Applied(stmt) ==
    CASE stmt.kind = "insert_team" ->
           /\ \E r \in teams' : r.team_id = stmt.id /\ r.team_name = stmt.name
           /\ Cardinality(teams') = Cardinality(teams) + 1
           /\ players' = players
      [] stmt.kind = "insert_player" ->
           /\ \E r \in players' : r.player_id = stmt.id /\ r.player_name = stmt.name
           /\ Cardinality(players') = Cardinality(players) + 1
           /\ teams' = teams
      [] stmt.kind = "update_player" ->
           /\ \A r \in players' : r.player_id = stmt.id => r.player_name = stmt.name
           /\ {r.player_id : r \in players'} = {r.player_id : r \in players}
           /\ teams' = teams
      [] stmt.kind = "delete_player" ->
           /\ players' = {r \in players : r.player_id # stmt.id}
           /\ teams' = teams

\* C9: execute_update on a statement that violates a constraint returns
\* False and leaves teams and players as they were; on any other statement
\* it returns True and the change is stored
C9_FalseAndUnchangedOrTrueAndStored ==
    [][(lastOp' = "execute_update" /\ webOps' = webOps + 1)
       => /\ Violates(lastArg')
               => lastResult' = "False" /\ teams' = teams /\ players' = players
          /\ ~Violates(lastArg') => lastResult' = "True" /\ Applied(lastArg')]_vars

\* the insert of a second team named India was refused
C9_DuplicateTeamName ==
    /\ lastOp = "execute_update"
    /\ lastArg.kind = "insert_team"
    /\ lastArg.name = "India"
    /\ lastResult = "False"
    /\ teams = AppTeams

----------------------------------------------------------------------------
(* Further properties of the pipeline (Spec)                               *)

\* C11: whatever the Match Ingestor and the sample-data inserts have
\* stored, no two rows of teams have the same team_name
C11_TeamNameUnique ==
    \A t1, t2 \in teams : t1.team_name = t2.team_name => t1 = t2

\* the payload's India (id 10) met the stored India (id 1) and was ignored
C11_SameNameOtherId ==
    /\ lastOp = "fetch_recent_matches"
    /\ lastArg = "pEndToEnd"
    /\ lastResult = "committed"
    /\ \E t \in teams : t.team_id = 1 /\ t.team_name = "India"
    /\ ~\E t \in teams : t.team_id = 10
    /\ \E m \in matches : m.match_id = 501 /\ m.team1_id = 10

\* the Completed matches a team took part in
CompletedOf(team_id) ==
    {m \in matches : /\ m.match_status = "Completed"
                     /\ (m.team1_id = team_id \/ m.team2_id = team_id)}

\* C14: a run of update_team_statistics records for every team a row with
\* matches_played = its Completed matches as team1 or team2, matches_won =
\* those it is the winner of, matches_lost = matches_played - matches_won
C14_TeamStatsCounts ==
    lastOp = "update_team_statistics"
    => \A t \in teams :
         \E row \in BagToSet(team_statistics) :
            /\ row.team_id = t.team_id
            /\ row.matches_played = Cardinality(CompletedOf(t.team_id))
            /\ row.matches_won =
                 Cardinality({m \in CompletedOf(t.team_id) :
                                m.match_winner_id = t.team_id})
            /\ row.matches_lost = row.matches_played - row.matches_won

\* India with two Completed sample matches, one won, and a third match
\* that is not Completed
C14_PlayedWonLost ==
    /\ lastOp = "update_team_statistics"
    /\ \E row \in BagToSet(team_statistics) :
         /\ row.team_id = 1
         /\ row.matches_played = 2
         /\ row.matches_won = 1
         /\ row.matches_lost = 1
    /\ \E m \in matches : m.match_status # "Completed"
    /\ \E row \in BagToSet(team_statistics) :
         row.team_id = 5 /\ row.matches_played = 0

\* the payload has an entry whose failure is not caught while it is stored
EscapesEntryHandling(p) == \E pos \in Positions(p) : ~EntryAt(p, pos).infoOk

\* a call of a listing ingestor that got a payload
ListingCall(op) == lastOp' = op /\ pc' # pc /\ lastArg' # "None"

\* C15: when a failure escapes the per-entry handling during
\* fetch_recent_matches or fetch_live_matches, teams, venues, series and
\* matches are after the call what they were before it: nothing written
\* earlier in the call stays
C15_BatchRolledBack ==
    [][\A op \in {"fetch_recent_matches", "fetch_live_matches"} :
          (ListingCall(op) /\ EscapesEntryHandling(Payload(lastArg')))
          => /\ teams' = teams
             /\ venues' = venues
             /\ series' = series
             /\ matches' = matches]_vars

\* the recent feed stored series 8 and match 502 of the payload, then met
\* the malformed entry: neither row is stored after the call
C15_NothingKept ==
    /\ schema = "fetcher"
    /\ lastOp = "fetch_recent_matches"
    /\ lastArg = "pNullInfo"
    /\ lastResult = "rolled back"
    /\ ~\E s \in series : s.series_id = 8
    /\ ~\E m \in matches : m.match_id = 502
    /\ \E m \in matches : m.match_id = 501

\* C16: after a listing ingestor has processed a payload, every entry of
\* the payload that has a match id and stores without an exception has its
\* matches row, whatever its sibling entries are (without id, with a null
\* venueInfo, with a null matchInfo)
C16_SiblingsIngested ==
    (lastOp \in {"fetch_recent_matches", "fetch_live_matches"}
        /\ lastArg # "None")
    => \A pos \in Positions(Payload(lastArg)) :
         LET e == EntryAt(Payload(lastArg), pos)
         IN (e.infoOk /\ Truthy(e.matchId) /\ e.venueInfo # NullVenue)
            => \E m \in matches : m.match_id = e.matchId

\* C17: after fetch_match_scorecards, every player resolved while the
\* batch stored its scorecards is in players: no failure on one match of
\* the batch undoes what was written for the matches before it
C17_WrittenRowsCommitted ==
    (schema = "fetcher" /\ lastOp = "fetch_match_scorecards")
    => \A c \in idCalls : \E p \in players : p.player_id = c[4]


----------------------------------------------------------------------------
(* Properties of the country back-fill (SpecTeams)                         *)

\* positions of country_mapping whose key occurs in the lower-cased name
MappingHits(team_name) ==
    {i \in 1..Len(country_mapping) : country_mapping[i][1] \in KeysIn(team_name)}

\* C13: determine_country_from_team_name returns the country of the first
\* mapping key, in mapping order, that occurs case-insensitively in the team
\* name, and the name itself when no key occurs; "Royal Pakistan XI" is
\* resolved to "Pakistan".
C13_FirstKeyInMappingOrder ==
    lastOp = "fetch_teams_data" =>
        \A t \in teams :
            /\ MappingHits(t.team_name) = {} => t.country = t.team_name
            /\ MappingHits(t.team_name) # {} =>
                 \E i \in MappingHits(t.team_name) :
                    /\ \A j \in MappingHits(t.team_name) : i <= j
                    /\ t.country = country_mapping[i][2]
            /\ t.team_name = "Royal Pakistan XI" => t.country = "Pakistan"

\* the back-fill ran on a name with one key, a name with two keys, an
\* upper-case name and a name with none
C13_Resolved ==
    /\ lastOp = "fetch_teams_data"
    /\ TeamRow(31, "Royal Pakistan XI", "Pakistan") \in teams
    /\ TeamRow(32, "Kenya", "Kenya") \in teams
    /\ TeamRow(33, "Pakistan v India Legends", "India") \in teams
    /\ TeamRow(34, "ENGLAND LIONS", "England") \in teams


----------------------------------------------------------------------------
(* Properties of the exchange with the API (SpecApi)                       *)

\* C18: make_api_request performs at most two HTTP calls for one logical
\* request: after a 429 it retries exactly once, and a second 429 is not
\* retried.
C18_AtMostTwoHttpCalls == api.http <= 2

\* the outcomes the claim is about: a timeout, a connection error, a status
\* code other than 200 and 429
TransientFailures == {"timeout", "connection error", "500"}

\* C20: after a timeout, a connection error or a status code other than 200
\* and 429, make_api_request returns None without raising; the listing step
\* that called it then returns leaving every table unchanged, and the
\* pipeline goes on to its next step.
C20_NoDataNeverFatal ==
    [][/\ (api'.state # "idle" /\ api'.status \in TransientFailures)
            => api'.state = "returned" /\ api'.result = "None"
       /\ (api.state = "returned" /\ api.status \in TransientFailures
             /\ api'.state = "idle")
            => /\ UNCHANGED tables
               /\ lastResult' = "no data"
               /\ pc' = IF pc = "recent" THEN "live" ELSE "teams"]_vars

\* the recent step stored match 501, the request of the live step timed
\* out, the live step returned without data and the teams step is next
C20_TimedOutAfterIngest ==
    /\ schema = "fetcher"
    /\ lastOp = "fetch_live_matches"
    /\ lastResult = "no data"
    /\ pc = "teams"
    /\ api = [ApiIdle EXCEPT !.status = "timeout"]
    /\ lastIngest = <<"recent", "pEndToEnd">>
    /\ \E m \in matches : m.match_id = 501


----------------------------------------------------------------------------
(* Properties of start-up (SpecStartup)                                    *)

IngestionSteps ==
    {"fetch_recent_matches", "fetch_live_matches", "fetch_teams_data",
     "fetch_match_scorecards", "update_player_statistics",
     "update_team_statistics"}

\* C12: before any ingestion statement or read query executes in a process
\* on a usable file, the Schema Manager has run and all seven tables exist.
C12_SchemaBeforeUse ==
    (schema # "unusable" /\ lastOp \in IngestionSteps \cup {"execute_query"})
        => TablesOf(schema) = AllTables

\* C19: when schema creation fails in init_database the failure is fatal:
\* no ingestion step runs afterwards in that run.
C19_FailedInitIsFatal ==
    [][(lastOp = "init_database" /\ lastResult = "failed")
          => lastOp' \notin IngestionSteps]_vars


----------------------------------------------------------------------------
(* Properties of the scorecard batch (SpecSelect)                          *)

\* the stored match with the given id
MatchOf(id) == CHOOSE m \in matches : m.match_id = id

HasPerformance(id) == \E r \in pmp : r.match_id = id

\* C21: fetch_match_scorecards takes only matches that have no performance
\* row at selection time, at most 3 of them per run, in descending
\* match_date order (no match left out is more recent than one taken); a
\* match with a performance row is never requested.
C21_SelectionPolicy ==
    [][(pc = "scorecards" /\ lastOp' = "fetch_match_scorecards") =>
          LET sel == lastArg'
              left == {m \in matches : ~HasPerformance(m.match_id)
                                         /\ \A i \in 1..Len(sel) : sel[i] # m.match_id}
          IN /\ Len(sel) <= 3
             /\ \A i \in 1..Len(sel) :
                   /\ \E m \in matches : m.match_id = sel[i]
                   /\ ~HasPerformance(sel[i])
             /\ \A i, j \in 1..Len(sel) : i < j =>
                   /\ sel[i] # sel[j]
                   /\ MatchOf(sel[i]).match_date >= MatchOf(sel[j]).match_date
             /\ left # {} => Len(sel) = 3
             /\ \A m \in left, i \in 1..Len(sel) :
                   MatchOf(sel[i]).match_date >= m.match_date]_vars

\* a batch of three was taken while a fourth match without performance rows
\* and a match with performance rows were stored
C21_ThreeOfFour ==
    /\ lastOp = "fetch_match_scorecards"
    /\ lastArg = <<604, 603, 601>>
    /\ \E m \in matches : m.match_id = 605 /\ ~HasPerformance(605)
    /\ \E m \in matches : m.match_id = 602
    /\ PmpRow(1, 1, 602, 10, 1, 50, 40, 0, 0) \in pmp


----------------------------------------------------------------------------
(* Further properties of the Scorecard Ingestor (SpecIngest)               *)

\* C22: once a players row exists for a player id, every later batting or
\* bowling ingestion of that player leaves its role, name and team as they
\* are: a player first inserted as "Bowler" and later seen as a batter keeps
\* role "Bowler", and the other way round.
C22_IdentityRowKept ==
    [][lastOp' = "store_scorecard_data_fixed" =>
          \A p \in players :
             \E q \in players' :
                /\ q.player_id = p.player_id
                /\ q.role = p.role
                /\ q.player_name = p.player_name
                /\ q.team_id = p.team_id]_vars

\* Kohli was first stored as a batter and only bowled in the scorecard
\* ingested last
C22_BatterThenBowler ==
    /\ lastOp = "store_scorecard_data_fixed"
    /\ lastArg = <<502, "scPartTimer">>
    /\ lastResult = "stored"
    /\ \E p \in players :
          /\ p.player_name = "Kohli"
          /\ p.role = "Batsman"
          /\ \E r \in pmp : r.player_id = p.player_id /\ r.match_id = 502
                              /\ r.wickets_taken = 1


----------------------------------------------------------------------------
(* Properties of the order of the pipeline (Spec)                          *)

\* C23: within one fetch_and_store_all_data run the steps execute in the
\* fixed order recent matches, live matches, team country back-fill,
\* scorecard ingestion, player aggregation, team aggregation: a step starts
\* only when the step before it has returned (committed, rolled back or
\* without data), so the Aggregator never starts before the Scorecard
\* Ingestor of the run has finished, nor the Scorecard Ingestor before match
\* ingestion has.
C23_FixedStepOrder ==
    [][\A i \in 1..Len(StepNames) :
          /\ (lastOp' = StepNames[i] /\ pc' # pc)
                => pc = PipelineSteps[i] /\ pc' = PipelineSteps[i + 1]
          /\ (pc' = PipelineSteps[i + 1] /\ pc' # pc)
                => /\ pc = PipelineSteps[i]
                   /\ lastOp' = StepNames[i]
                   /\ lastResult' \in {"committed", "rolled back", "no data",
                                       "nothing to fetch"}]_vars

\* a first run went through all six steps: matches were ingested, a
\* scorecard batch for them was committed, and both aggregations ran
C23_RunCompleted ==
    /\ pc = "done"
    /\ runs = 1
    /\ lastOp = "update_team_statistics"
    /\ lastIngest # <<>>
    /\ matches # {}
    /\ pmp # {}
    /\ \E p \in players : p.matches_played > 0
    /\ team_statistics # EmptyBag


----------------------------------------------------------------------------
(* Properties of repeated scorecard batches (SpecStarve)                   *)

\* the batch that ran last requested the scorecard of match id
Requested(id) ==
    /\ lastOp = "fetch_match_scorecards"
    /\ \E i \in 1..Len(lastArg) : lastArg[i] = id

\* C24: under repeated runs with an API that always answers, every stored
\* match is eventually selected by fetch_match_scorecards and its scorecard
\* requested, whatever the scorecards of more recent matches yield.
C24_NoMatchStarved ==
    \A m \in MatchPool : <>Requested(m.match_id)


\* C25: every non-null team1_id, team2_id and venue_id of a matches row
\* refers to a row of teams / venues
C25_MatchReferencesResolve ==
    \A m \in matches :
        /\ m.team1_id # NULL => \E t \in teams : t.team_id = m.team1_id
        /\ m.team2_id # NULL => \E t \in teams : t.team_id = m.team2_id
        /\ m.venue_id # NULL => \E v \in venues : v.venue_id = m.venue_id


\* every schema initializer has run on the file: the fetcher's constructor
\* before Init, db_connection.init_database before it (schema "app" or
\* "sample") or since, init_sample_database before it (schema "sample") or
\* just now
AllInitializersRan ==
    \/ schema = "sample"
    \/ schema = "app" /\ lastOp = "init_sample_database"
    \/ /\ schema = "fetcher"
       /\ lastOp = "init_sample_database"
       /\ AppPlayers \subseteq players

\* C26: once the three schema initializers have run, in whichever order,
\* players has the player_key column and player_match_performance has
\* player_key and UNIQUE(match_id, player_id, innings_number)
C26_SchemaWhateverOrder ==
    AllInitializersRan => PlayersHasKey /\ PmpHasKeyAndUnique


\* C27: a call of fetch_recent_matches that stores the payload the call
\* before it stored leaves teams, venues, series and matches as they were
C27_RerunSameRows ==
    [][(/\ lastOp = "fetch_recent_matches"
        /\ lastResult = "committed"
        /\ pc = "recent"
        /\ lastOp' = "fetch_recent_matches"
        /\ lastResult' = "committed"
        /\ lastArg' = lastArg)
       => UNCHANGED <<teams, venues, series, matches>>]_vars


\* C28: while the pipeline is the only writer of the file, every row of
\* team_statistics has matches_won = 0 and matches_lost = matches_played
C28_NoWinsRecorded ==
    (schema = "fetcher" /\ webOps = 0) =>
        \A r \in BagToSet(team_statistics) :
            r.matches_won = 0 /\ r.matches_lost = r.matches_played

\* the pipeline alone has stored a Completed match and aggregated it
C28_PlayedAllLost ==
    /\ schema = "fetcher" /\ webOps = 0
    /\ lastOp = "update_team_statistics"
    /\ \E m \in matches : m.match_status = "Completed" /\ m.team1_id = 10
    /\ \E r \in BagToSet(team_statistics) :
         r.team_id = 10 /\ r.matches_played >= 1 /\ r.matches_lost >= 1


----------------------------------------------------------------------------
(* Properties of the request counters (SpecApi)                            *)

\* C29: whenever make_api_request has returned, api_calls =
\* successful_calls + failed_calls, whatever the outcomes of its HTTP calls
\* were
C29_CallsAddUp ==
    api.state \in {"idle", "returned"} =>
        stats.api_calls = stats.successful_calls + stats.failed_calls


----------------------------------------------------------------------------
(* Properties of concurrent submissions on the CRUD page (SpecCrud)        *)

\* the rows of players with the id
RowsOf(id) == {p \in players : p.player_id = id}

\* C30: when two sessions have run create_new_player_record with the same
\* new player_id, in whatever interleaving of their check queries and
\* inserts, players holds exactly one row with that id, the row has the
\* values of the session whose insert succeeded, and the other session was
\* told of a failure
C30_OneRowOneWinner ==
    \A a, b \in Sessions :
        (/\ a # b
         /\ crud[a].at = "done" /\ crud[b].at = "done"
         /\ crud[a].id = crud[b].id
         /\ ~\E p \in AppPlayers : p.player_id = crud[a].id)
        => /\ Cardinality(RowsOf(crud[a].id)) = 1
           /\ \E w \in {a, b} :
                /\ crud[w].outcome = "added"
                /\ \A p \in RowsOf(crud[a].id) :
                     p.player_name = crud[w].name
                /\ \A o \in {a, b} \ {w} :
                     crud[o].outcome \in {"already exists", "failed"}

\* both sessions passed the check before either inserted: A's insert went
\* through as Gill, B's insert as Pant was refused by the primary key
C30_BothPassedCheck ==
    /\ crud["A"] = [at |-> "done", id |-> 18, name |-> "Gill",
                    outcome |-> "added"]
    /\ crud["B"] = [at |-> "done", id |-> 18, name |-> "Pant",
                    outcome |-> "failed"]
    /\ lastOp = "execute_update"
    /\ lastResult = "False"
    /\ \E p \in players : p.player_id = 18 /\ p.player_name = "Gill"

====
